---- MODULE Spec2Model ----
(***************************************************************************)
(* Verification model of outline-client-go.                                *)
(*                                                                         *)
(* Part 1 (specification Spec): the fasthttp-backed transport,             *)
(* internal/http.Client.Do: pooled request/response buffers, the helper    *)
(* goroutine, the single-slot completion channel and the select between    *)
(* completion and context cancellation.                                    *)
(*                                                                         *)
(* Part 2 (specification SpecClient): the error taxonomy of the outline    *)
(* package (sentinels, wrappers, errors.Join / errors.Is / errors.As) and  *)
(* the Client operations that classify a Doer's outcome.                   *)
(*                                                                         *)
(* Part 3 (specification SpecFormat): the pure functions of the outline    *)
(* package: the Error() methods and withLastError, the decoding helper,    *)
(* client construction and the path helpers.                               *)
(***************************************************************************)
EXTENDS Integers, Sequences, FiniteSets, TLC

VARIABLES
    \* ---- transport (Part 1) ----
    pc,          \* position of each Do call
    hPc,         \* position of each call's helper goroutine
    ctx,         \* each call's context: "active" or its cancellation error
    ctxAtCall,   \* the context's state when Do was entered
    acqReq,      \* pooled request acquired by the call (0: none yet)
    acqResp,     \* pooled response acquired by the call (0: none yet)
    reqPool,     \* free pooled requests
    respPool,    \* free pooled responses
    reqNew,      \* pooled requests allocated so far
    respNew,     \* pooled responses allocated so far
    reqContent,  \* content of each pooled request
    respContent, \* content of each pooled response
    errCh,       \* each call's completion channel (capacity 1)
    hErr,        \* what the underlying exchange returned to the helper
    ret,         \* what Do returns: [resp, err]
    first,       \* which signal of the call was raised first
    \* ---- client operations (Part 2) ----
    opName,      \* the Client operation last called ("" before any)
    opArg,       \* its argument (hostname, port, id, ...) as logged in errors
    opDoerErr,   \* the error its Doer returned (NilErr when it answered)
    opResp,      \* the response its Doer returned (NilResp on error)
    opResult,    \* [val, err] returned by the operation
    opPc,        \* position of the operation call that runs step by step
    doerLog,     \* what c.doer.Do returned, once per invocation in this call
    built,       \* the error last built by a constructor, with its inputs
    \* ---- formatting and paths (Part 3) ----
    fnCall,      \* the function last called, with its inputs and its output
    urls,        \* memory: the url.URL value stored at each address
    urlCalls     \* each caller's position in the operation building a URL

transportVars == <<pc, hPc, ctx, ctxAtCall, acqReq, acqResp, reqPool, respPool,
                   reqNew, respNew, reqContent, respContent, errCh, hErr, ret,
                   first>>
clientVars == <<opName, opArg, opDoerErr, opResp, opResult, opPc, doerLog,
                built, fnCall, urls, urlCalls>>
vars == <<transportVars, clientVars>>

(***************************************************************************)
(* Bounds                                                                  *)
(***************************************************************************)
MaxCalls == 2

Calls == 1 .. MaxCalls
BufIds == 1 .. MaxCalls

(***************************************************************************)
(* Part 1: the transport                                                   *)
(***************************************************************************)
NoErr == "nil"
CtxErrs == {"context canceled"}
TransportErrs == {"dial error"}
StatusOK == 200

NilResponse == [nil |-> TRUE]
EmptyBuf == [status |-> 0, body |-> <<>>]

\* The remote's answer to the request of call c: each request is answered
\* with bytes of its own, so that an answer read through another call's
\* buffer is told apart.
Answer(c) == [status |-> StatusOK, body |-> <<"answer", c>>]

\* fasthttp.AcquireRequest / AcquireResponse: sync.Pool.Get hands out any
\* pooled object, or allocates a new one.
AcquireChoices(pool, allocated) == pool \cup {allocated + 1}

\* A Do that hands out fastResp.Body() itself: a view into the pooled response.
CloneBodyAliased(buf) == [own |-> FALSE, bytes |-> <<>>, buf |-> buf]

\* slices.Clone(fastResp.Body()): the body handed to the caller.
CloneBody(buf) == [own |-> TRUE, bytes |-> respContent[buf].body, buf |-> 0]

\* The bytes a caller reads from a returned body: its own copy, or, for a
\* view into pooled memory, whatever the pooled response holds now.
BodyBytes(b) == IF b.own THEN b.bytes ELSE respContent[b.buf].body

\* A Do that wraps the error it returns.
FailureWrapped(err) == [resp |-> NilResponse, err |-> "fasthttp do: " \o err]

\* return nil, err (lines 70 and 74): the error value is passed on as is.
Failure(err) == [resp |-> NilResponse, err |-> err]

\* Lines 41-64: acquire both pooled objects, fill the request, create the
\* channel and start the helper goroutine.
DoStart(c) ==
    /\ pc[c] = "idle"
    /\ \E rq \in AcquireChoices(reqPool, reqNew),
          rs \in AcquireChoices(respPool, respNew) :
          /\ acqReq' = [acqReq EXCEPT ![c] = rq]
          /\ acqResp' = [acqResp EXCEPT ![c] = rs]
          /\ reqPool' = reqPool \ {rq}
          /\ respPool' = respPool \ {rs}
          /\ reqNew' = IF rq = reqNew + 1 THEN reqNew + 1 ELSE reqNew
          /\ respNew' = IF rs = respNew + 1 THEN respNew + 1 ELSE respNew
          /\ reqContent' = [reqContent EXCEPT ![rq] = c]
    /\ ctxAtCall' = [ctxAtCall EXCEPT ![c] = ctx[c]]
    /\ errCh' = [errCh EXCEPT ![c] = <<>>]
    /\ hPc' = [hPc EXCEPT ![c] = "running"]
    /\ pc' = [pc EXCEPT ![c] = "select"]
    /\ UNCHANGED <<ctx, respContent, hErr, ret, first, clientVars>>

\* Line 63, c.client.Do(fastReq, fastResp) returns: a transport error, or a
\* response written into the pooled response the helper captured, whoever
\* holds that object by now.
HelperExchange(c) ==
    /\ hPc[c] = "running"
    /\ \/ \E e \in TransportErrs :
             /\ hErr' = [hErr EXCEPT ![c] = e]
             /\ UNCHANGED respContent
       \/ /\ hErr' = [hErr EXCEPT ![c] = NoErr]
          /\ respContent' = [respContent EXCEPT ![acqResp[c]] = Answer(c)]
    /\ hPc' = [hPc EXCEPT ![c] = "send"]
    /\ UNCHANGED <<pc, ctx, ctxAtCall, acqReq, acqResp, reqPool, respPool,
                   reqNew, respNew, reqContent, errCh, ret, first, clientVars>>

\* A send on a channel without a slot: it needs Do to be receiving.
HelperSendUnbuffered(c) ==
    /\ hPc[c] = "send"
    /\ pc[c] = "select"
    /\ Len(errCh[c]) < 1
    /\ errCh' = [errCh EXCEPT ![c] = Append(@, hErr[c])]
    /\ hPc' = [hPc EXCEPT ![c] = "done"]
    /\ first' = [first EXCEPT ![c] = IF @ = "none" THEN "completion" ELSE @]
    /\ UNCHANGED <<pc, ctx, ctxAtCall, acqReq, acqResp, reqPool, respPool,
                   reqNew, respNew, reqContent, respContent, hErr, ret,
                   clientVars>>

\* Line 63, errCh <- err: the channel holds one message.
HelperSend(c) ==
    /\ hPc[c] = "send"
    /\ Len(errCh[c]) < 1
    /\ errCh' = [errCh EXCEPT ![c] = Append(@, hErr[c])]
    /\ hPc' = [hPc EXCEPT ![c] = "done"]
    /\ first' = [first EXCEPT ![c] = IF @ = "none" THEN "completion" ELSE @]
    /\ UNCHANGED <<pc, ctx, ctxAtCall, acqReq, acqResp, reqPool, respPool,
                   reqNew, respNew, reqContent, respContent, hErr, ret,
                   clientVars>>

\* A cancellation that also stops the helper's exchange.
CtxCancelInterrupting(c) ==
    /\ ctx[c] = "active"
    /\ \E e \in CtxErrs :
          /\ ctx' = [ctx EXCEPT ![c] = e]
          /\ hErr' = [hErr EXCEPT ![c] = IF hPc[c] = "running" THEN e ELSE @]
    /\ hPc' = [hPc EXCEPT ![c] = IF @ = "running" THEN "send" ELSE @]
    /\ first' = [first EXCEPT ![c] = IF @ = "none" THEN "cancel" ELSE @]
    /\ UNCHANGED <<pc, ctxAtCall, acqReq, acqResp, reqPool, respPool,
                   reqNew, respNew, reqContent, respContent, errCh, ret,
                   clientVars>>

\* The caller's context is cancelled or its deadline passes; this may happen
\* before Do is called, while it waits, or after it returned.
CtxCancel(c) ==
    /\ ctx[c] = "active"
    /\ \E e \in CtxErrs : ctx' = [ctx EXCEPT ![c] = e]
    /\ first' = [first EXCEPT ![c] = IF @ = "none" THEN "cancel" ELSE @]
    /\ UNCHANGED <<pc, hPc, ctxAtCall, acqReq, acqResp, reqPool, respPool,
                   reqNew, respNew, reqContent, respContent, errCh, hErr, ret,
                   clientVars>>

\* Lines 43-44, the deferred fasthttp.ReleaseResponse and ReleaseRequest: each
\* resets the object and puts it back into its pool. They run on every
\* return of Do.
Release(c) ==
    /\ respContent' = [respContent EXCEPT ![acqResp[c]] = EmptyBuf]
    /\ respPool' = respPool \cup {acqResp[c]}
    /\ reqContent' = [reqContent EXCEPT ![acqReq[c]] = 0]
    /\ reqPool' = reqPool \cup {acqReq[c]}

\* Lines 67-71, case err := <-errCh. A select with several ready cases takes
\* any of them, so this branch needs only its own channel to be ready. With
\* an error Do returns it (line 70) and the deferred releases run; without,
\* Do goes on to read the pooled response.
DoSelectErrCh(c) ==
    /\ pc[c] = "select"
    /\ Len(errCh[c]) > 0
    /\ errCh' = [errCh EXCEPT ![c] = Tail(@)]
    /\ IF Head(errCh[c]) # NoErr
          THEN /\ ret' = [ret EXCEPT ![c] = Failure(Head(errCh[c]))]
               /\ Release(c)
               /\ pc' = [pc EXCEPT ![c] = "returned"]
          ELSE /\ pc' = [pc EXCEPT ![c] = "copy"]
               /\ UNCHANGED <<ret, reqPool, respPool, reqContent, respContent>>
    /\ UNCHANGED <<hPc, ctx, ctxAtCall, acqReq, acqResp, reqNew, respNew,
                   hErr, first, clientVars>>

\* A Do whose cancellation path returns without releasing.
DoSelectCtxDoneLeaking(c) ==
    /\ pc[c] = "select"
    /\ ctx[c] # "active"
    /\ ret' = [ret EXCEPT ![c] = Failure(ctx[c])]
    /\ pc' = [pc EXCEPT ![c] = "returned"]
    /\ UNCHANGED <<hPc, ctx, ctxAtCall, acqReq, acqResp, reqPool, respPool,
                   reqNew, respNew, reqContent, respContent, errCh, hErr,
                   first, clientVars>>

\* A Do that gives up waiting on its own, with neither signal raised.
DoSelectTimeout(c) ==
    /\ pc[c] = "select"
    /\ ret' = [ret EXCEPT ![c] = Failure("timeout")]
    /\ Release(c)
    /\ pc' = [pc EXCEPT ![c] = "returned"]
    /\ UNCHANGED <<hPc, ctx, ctxAtCall, acqReq, acqResp, reqNew, respNew,
                   errCh, hErr, first, clientVars>>

\* Lines 72-74, case <-ctx.Done(): return nil, ctx.Err(), and the deferred
\* releases run.
DoSelectCtxDone(c) ==
    /\ pc[c] = "select"
    /\ ctx[c] # "active"
    /\ ret' = [ret EXCEPT ![c] = Failure(ctx[c])]
    /\ Release(c)
    /\ pc' = [pc EXCEPT ![c] = "returned"]
    /\ UNCHANGED <<hPc, ctx, ctxAtCall, acqReq, acqResp, reqNew, respNew,
                   errCh, hErr, first, clientVars>>

\* Lines 77-104: build the Response from the pooled response.
DoCopy(c) ==
    /\ pc[c] = "copy"
    /\ ret' = [ret EXCEPT ![c] =
                  [resp |-> [nil |-> FALSE,
                             status |-> respContent[acqResp[c]].status,
                             body |-> CloneBody(acqResp[c])],
                   err |-> NoErr]]
    /\ pc' = [pc EXCEPT ![c] = "defer"]
    /\ UNCHANGED <<hPc, ctx, ctxAtCall, acqReq, acqResp, reqPool, respPool,
                   reqNew, respNew, reqContent, respContent, errCh, hErr,
                   first, clientVars>>

\* Line 105, return resp, nil: the deferred releases run and Do returns.
DoReturn(c) ==
    /\ pc[c] = "defer"
    /\ Release(c)
    /\ pc' = [pc EXCEPT ![c] = "returned"]
    /\ UNCHANGED <<hPc, ctx, ctxAtCall, acqReq, acqResp, reqNew, respNew,
                   errCh, hErr, ret, first, clientVars>>

(***************************************************************************)
(* Part 2: the error taxonomy (outline/errors.go)                          *)
(*                                                                         *)
(* An error value is a record with a field t naming its dynamic type.      *)
(* errors.New values carry an id: two of them are equal only when they are *)
(* the same value, as pointers are in Go.                                  *)
(***************************************************************************)
NilErr == [t |-> "nil"]
errorsNew(id, text) == [t |-> "errorString", id |-> id, msg |-> text]

ClientOutlineError == errorsNew("ClientOutlineError", "outline client error")
InvalidBaseURLError == errorsNew("InvalidBaseURLError", "invalid baseURL")
UnmarshalFailedError == errorsNew("UnmarshalFailedError", "unmarshal failed")
UnmarshalEmptyBodyError == errorsNew("UnmarshalEmptyBodyError", "empty body")
InvalidHostnameError ==
    errorsNew("InvalidHostnameError", "invalid hostname or IP address")
InternalHostNameError ==
    errorsNew("InternalHostNameError",
              "internal error occurred while validating hostname or IP address")
InvalidPortError ==
    errorsNew("InvalidPortError",
              "requested port wasn't integer from 1 through 65535, or request had no port parameter")
PortAlreadyInUseError ==
    errorsNew("PortAlreadyInUseError",
              "requested port was already in use by another service")
InvalidServerNameError ==
    errorsNew("InvalidServerNameError", "invalid server name")
InvalidRequestError == errorsNew("InvalidRequestError", "invalid request")
InvalidDataLimitError ==
    errorsNew("InvalidDataLimitError", "invalid data limit")
AccessKeyNotFoundError ==
    errorsNew("AccessKeyNotFoundError", "access key not found")
UnexpectedStatusCodeError ==
    errorsNew("UnexpectedStatusCodeError", "unexpected status code")
DoOperationError == errorsNew("DoOperationError", "do operation error")

\* The specific sentinel kinds: every sentinel but the umbrella.
SpecificKinds ==
    {InvalidBaseURLError, UnmarshalFailedError, UnmarshalEmptyBodyError,
     InvalidHostnameError, InternalHostNameError, InvalidPortError,
     PortAlreadyInUseError, InvalidServerNameError, InvalidRequestError,
     InvalidDataLimitError, AccessKeyNotFoundError, UnexpectedStatusCodeError,
     DoOperationError}

\* The wrapper types of errors.go; each has Unwrap() error returning err.
WrapperTypes == {"ClientError", "ParseURLError", "UnmarshalError", "DoError"}

\* A sequence without its nil errors.
RECURSIVE DropNil(_)
DropNil(es) ==
    IF es = <<>> THEN <<>>
    ELSE IF Head(es) = NilErr THEN DropNil(Tail(es))
    ELSE <<Head(es)>> \o DropNil(Tail(es))

\* An errors.Join that keeps only its first argument.
errorsJoinFirstOnly(es) ==
    IF DropNil(es) = <<>> THEN NilErr
    ELSE [t |-> "joinError", errs |-> <<Head(DropNil(es))>>]

\* errors.Join: nil arguments are discarded, the others kept in order; nil
\* when none is left. The result has Unwrap() []error.
errorsJoin(es) ==
    IF DropNil(es) = <<>> THEN NilErr
    ELSE [t |-> "joinError", errs |-> DropNil(es)]

\* errors.Is: err or anything in its tree equals target. The tree is walked
\* through Unwrap() error (the wrappers of this package, and wrapError, a
\* foreign error wrapping another) and Unwrap() []error (joinError).
RECURSIVE errorsIs(_, _)
errorsIs(err, target) ==
    IF err = NilErr \/ target = NilErr THEN err = target
    ELSE IF err = target THEN TRUE
    ELSE IF err.t \in WrapperTypes \cup {"wrapError"}
        THEN err.err # NilErr /\ errorsIs(err.err, target)
    ELSE IF err.t = "joinError"
        THEN \E i \in 1 .. Len(err.errs) : errorsIs(err.errs[i], target)
    ELSE FALSE

\* errors.As into a pointer to wrapper type typ: the first error of that
\* type in err's tree (depth first, in order), NilErr when there is none.
RECURSIVE errorsAs(_, _)
RECURSIVE errorsAsAny(_, _)
errorsAsAny(es, typ) ==
    IF es = <<>> THEN NilErr
    ELSE IF errorsAs(Head(es), typ) # NilErr THEN errorsAs(Head(es), typ)
    ELSE errorsAsAny(Tail(es), typ)
errorsAs(err, typ) ==
    IF err = NilErr THEN NilErr
    ELSE IF err.t = typ THEN err
    ELSE IF err.t \in WrapperTypes \cup {"wrapError"} THEN errorsAs(err.err, typ)
    ELSE IF err.t = "joinError" THEN errorsAsAny(err.errs, typ)
    ELSE NilErr

\* ---- ClientError constructors (errors.go 92-181) ----
errInvalidHostname(statusCode, hostnameOrIP) ==
    [t |-> "ClientError", statusCode |-> statusCode, data |-> "",
     message |-> ClientOutlineError.msg \o ": (host name or ip: "
                 \o hostnameOrIP \o ")",
     err |-> errorsJoin(<<ClientOutlineError, InvalidHostnameError>>)]

errInternalHostname(statusCode, hostnameOrIP) ==
    [t |-> "ClientError", statusCode |-> statusCode, data |-> "",
     message |-> ClientOutlineError.msg \o ": (host name or ip: "
                 \o hostnameOrIP \o ")",
     err |-> errorsJoin(<<ClientOutlineError, InternalHostNameError>>)]

\* An errInvalidPort that joins the kind of its neighbour as well.
errInvalidPortJoiningBoth(statusCode, port) ==
    [t |-> "ClientError", statusCode |-> statusCode, data |-> "",
     message |-> ClientOutlineError.msg \o ": (port: " \o ToString(port) \o ")",
     err |-> errorsJoin(<<ClientOutlineError, InvalidPortError,
                          PortAlreadyInUseError>>)]

errInvalidPort(statusCode, port) ==
    [t |-> "ClientError", statusCode |-> statusCode, data |-> "",
     message |-> ClientOutlineError.msg \o ": (port: " \o ToString(port) \o ")",
     err |-> errorsJoin(<<ClientOutlineError, InvalidPortError>>)]

errPortAlreadyInUse(statusCode, port) ==
    [t |-> "ClientError", statusCode |-> statusCode, data |-> "",
     message |-> ClientOutlineError.msg \o ": (port: " \o ToString(port) \o ")",
     err |-> errorsJoin(<<ClientOutlineError, PortAlreadyInUseError>>)]

errInvalidServerName(statusCode, name) ==
    [t |-> "ClientError", statusCode |-> statusCode, data |-> "",
     message |-> ClientOutlineError.msg \o ": (server name: " \o name \o ")",
     err |-> errorsJoin(<<ClientOutlineError, InvalidServerNameError>>)]

errInvalidRequest(statusCode, body) ==
    [t |-> "ClientError", statusCode |-> statusCode, data |-> "",
     message |-> ClientOutlineError.msg \o ": (response body: " \o body \o ")",
     err |-> errorsJoin(<<ClientOutlineError, InvalidRequestError>>)]

errInvalidDataLimit(statusCode, bytes) ==
    [t |-> "ClientError", statusCode |-> statusCode, data |-> "",
     message |-> ClientOutlineError.msg \o ": (data limit bytes: "
                 \o ToString(bytes) \o ")",
     err |-> errorsJoin(<<ClientOutlineError, InvalidDataLimitError>>)]

errAccessKeyNotFound(statusCode, accessKeyID) ==
    [t |-> "ClientError", statusCode |-> statusCode, data |-> "",
     message |-> ClientOutlineError.msg \o ": (access key id: "
                 \o accessKeyID \o ")",
     err |-> errorsJoin(<<ClientOutlineError, AccessKeyNotFoundError>>)]

errUnexpectedStatusCode(statusCode, data) ==
    [t |-> "ClientError", statusCode |-> statusCode, data |-> data,
     message |-> ClientOutlineError.msg \o ": " \o UnexpectedStatusCodeError.msg,
     err |-> errorsJoin(<<ClientOutlineError, UnexpectedStatusCodeError>>)]

\* ---- ParseURLError constructor (errors.go 207-213) ----
errParseBaseURL(baseURL, err) ==
    [t |-> "ParseURLError", baseURL |-> baseURL,
     message |-> ClientOutlineError.msg \o ": " \o InvalidBaseURLError.msg,
     err |-> errorsJoin(<<ClientOutlineError, InvalidBaseURLError, err>>)]

\* ---- UnmarshalError constructors (errors.go 241-259) ----
errUnmarshal(data, typeStr, err) ==
    [t |-> "UnmarshalError", data |-> data, typeStr |-> typeStr,
     message |-> ClientOutlineError.msg \o ": " \o UnmarshalFailedError.msg,
     err |-> errorsJoin(<<ClientOutlineError, UnmarshalFailedError, err>>)]

errUnmarshalEmptyBody(typeStr) ==
    [t |-> "UnmarshalError", data |-> "", typeStr |-> typeStr,
     message |-> ClientOutlineError.msg \o ": " \o UnmarshalFailedError.msg,
     err |-> errorsJoin(<<ClientOutlineError, UnmarshalFailedError,
                          UnmarshalEmptyBodyError>>)]

\* A DoError whose join puts the upstream error first.
DoErrorForUpstreamFirst(operation, err) ==
    [t |-> "DoError", operation |-> operation,
     message |-> ClientOutlineError.msg \o ": " \o DoOperationError.msg,
     err |-> errorsJoin(<<err, ClientOutlineError, DoOperationError>>)]

\* ---- DoError constructors (errors.go 280-407): the eighteen errDo*
\* constructors differ only in the operation they name. ----
DoErrorFor(operation, err) ==
    [t |-> "DoError", operation |-> operation,
     message |-> ClientOutlineError.msg \o ": " \o DoOperationError.msg,
     err |-> errorsJoin(<<ClientOutlineError, DoOperationError, err>>)]

errDoGetServerInfo(err) == DoErrorFor("get server info", err)
errDoUpdateServerHostname(err) == DoErrorFor("update server hostname", err)
errDoUpdatePortNewAccessKeys(err) ==
    DoErrorFor("update port for new access keys", err)
errDoUpdateServerName(err) == DoErrorFor("update server name", err)
errDoGetMetricsEnabled(err) == DoErrorFor("get metrics enabled", err)
errDoUpdateMetricsEnabled(err) == DoErrorFor("update metrics enabled", err)
errDoUpdateKeyLimitBytes(err) == DoErrorFor("update key limit bytes", err)
errDoDeleteKeyLimitBytes(err) == DoErrorFor("delete key limit bytes", err)
errDoCreateAccessKey(err) == DoErrorFor("create access key", err)
errDoGetAccessKeys(err) == DoErrorFor("get access keys", err)
errDoGetAccessKey(err) == DoErrorFor("get access key", err)
errDoUpdateAccessKey(err) == DoErrorFor("update access key", err)
errDoDeleteAccessKey(err) == DoErrorFor("delete access key", err)
errDoUpdateNameAccessKey(err) == DoErrorFor("update name access key", err)
errDoUpdateDataLimitAccessKey(err) ==
    DoErrorFor("update data limit access key", err)
errDoDeleteDataLimitAccessKey(err) ==
    DoErrorFor("delete data limit access key", err)
errDoGetMetricsTransfer(err) == DoErrorFor("get metrics transfer", err)
errDoGetExperimentalMetrics(err) ==
    DoErrorFor("get experimental metrics", err)


(***************************************************************************)
(* Part 2: decoding (outline/unmarshal.go) and the Client operations       *)
(***************************************************************************)
StatusCreated == 201
StatusNoContent == 204
StatusBadRequest == 400
StatusNotFound == 404
StatusConflict == 409
StatusInternalServerError == 500

NilVal == [nil |-> TRUE]

\* encoding/json.Unmarshal(data, target): nil for a JSON text that fits the
\* target, a *json.SyntaxError otherwise.
ValidJSON == {"{}"}
jsonSyntaxError ==
    [t |-> "SyntaxError", msg |-> "invalid character 'o' in literal null (expecting 'u')"]
jsonUnmarshal(data) == IF data \in ValidJSON THEN NilErr ELSE jsonSyntaxError

\* A decoding helper that decodes without looking at the length first.
unmarshalWithErrorInternalUnguarded(data, typeStr) ==
    IF jsonUnmarshal(data) # NilErr
        THEN errUnmarshal(data, typeStr, jsonUnmarshal(data))
    ELSE NilErr

\* unmarshal.go 32-41.
unmarshalWithErrorInternal(data, typeStr) ==
    IF Len(data) = 0 THEN errUnmarshalEmptyBody(typeStr)
    ELSE IF jsonUnmarshal(data) # NilErr
        THEN errUnmarshal(data, typeStr, jsonUnmarshal(data))
    ELSE NilErr

\* unmarshal.go 10-16: typeName is T; the target is a *T.
unmarshalJSONWithError(data, typeName) ==
    IF unmarshalWithErrorInternal(data, "*" \o typeName) # NilErr
        THEN [val |-> NilVal,
              err |-> unmarshalWithErrorInternal(data, "*" \o typeName)]
        ELSE [val |-> [nil |-> FALSE, type |-> "*" \o typeName, from |-> data],
              err |-> NilErr]

\* unmarshal.go 20-28: typeName is T; the result is the wrapper's []*T.
unmarshalAccessKeysResponse(data, typeName) ==
    IF unmarshalWithErrorInternal(data, "[]*" \o typeName) # NilErr
        THEN [val |-> NilVal,
              err |-> unmarshalWithErrorInternal(data, "[]*" \o typeName)]
        ELSE [val |-> [nil |-> FALSE, type |-> "[]*" \o typeName, from |-> data],
              err |-> NilErr]

\* The result of an operation that returns only an error.
OnlyErr(err) == [val |-> NilVal, err |-> err]

\* errUnexpected(statusCode, data), which metrics.go calls: the constructor
\* for a status the caller did not anticipate.
errUnexpected(statusCode, data) == errUnexpectedStatusCode(statusCode, data)

\* Each operation below is given what its single c.doer.Do call returned:
\* doErr (NilErr when the Doer answered) and resp.

\* server.go 28-55.
GetServerInfo(doErr, resp) ==
    IF doErr # NilErr THEN OnlyErr(errDoGetServerInfo(doErr))
    ELSE IF resp.status = StatusOK
        THEN unmarshalJSONWithError(resp.body, "types.ServerInfoResponse")
    ELSE OnlyErr(errUnexpectedStatusCode(resp.status, resp.body))

\* An UpdateServerHostname that takes every failure status for a bad hostname.
UpdateServerHostnameBlamingCaller(hostnameOrIP, doErr, resp) ==
    IF doErr # NilErr THEN OnlyErr(errDoUpdateServerHostname(doErr))
    ELSE IF resp.status = StatusNoContent THEN OnlyErr(NilErr)
    ELSE OnlyErr(errInvalidHostname(resp.status, hostnameOrIP))

\* server.go 75-116.
UpdateServerHostname(hostnameOrIP, doErr, resp) ==
    IF doErr # NilErr THEN OnlyErr(errDoUpdateServerHostname(doErr))
    ELSE IF resp.status = StatusNoContent THEN OnlyErr(NilErr)
    ELSE IF resp.status = StatusBadRequest
        THEN OnlyErr(errInvalidHostname(StatusBadRequest, hostnameOrIP))
    ELSE IF resp.status = StatusInternalServerError
        THEN OnlyErr(errInternalHostname(StatusInternalServerError, hostnameOrIP))
    ELSE OnlyErr(errUnexpectedStatusCode(resp.status, resp.body))

\* server.go 135-176.
UpdatePortNewAccessKeys(port, doErr, resp) ==
    IF doErr # NilErr THEN OnlyErr(errDoUpdatePortNewAccessKeys(doErr))
    ELSE IF resp.status = StatusNoContent THEN OnlyErr(NilErr)
    ELSE IF resp.status = StatusBadRequest
        THEN OnlyErr(errInvalidPort(StatusBadRequest, port))
    ELSE IF resp.status = StatusConflict
        THEN OnlyErr(errPortAlreadyInUse(StatusConflict, port))
    ELSE OnlyErr(errUnexpectedStatusCode(resp.status, resp.body))

\* server.go 192-230.
UpdateServerName(name, doErr, resp) ==
    IF doErr # NilErr THEN OnlyErr(errDoUpdateServerName(doErr))
    ELSE IF resp.status = StatusNoContent THEN OnlyErr(NilErr)
    ELSE IF resp.status = StatusBadRequest
        THEN OnlyErr(errInvalidServerName(StatusBadRequest, name))
    ELSE OnlyErr(errUnexpectedStatusCode(resp.status, resp.body))

\* server.go 247-274.
GetMetricsEnabled(doErr, resp) ==
    IF doErr # NilErr THEN OnlyErr(errDoGetMetricsEnabled(doErr))
    ELSE IF resp.status = StatusOK
        THEN unmarshalJSONWithError(resp.body, "types.MetricsEnabled")
    ELSE OnlyErr(errUnexpectedStatusCode(resp.status, resp.body))

\* server.go 292-328.
UpdateMetricsEnabled(enabled, doErr, resp) ==
    IF doErr # NilErr THEN OnlyErr(errDoUpdateMetricsEnabled(doErr))
    ELSE IF resp.status = StatusNoContent THEN OnlyErr(NilErr)
    ELSE IF resp.status = StatusBadRequest
        THEN OnlyErr(errInvalidRequest(StatusBadRequest, resp.body))
    ELSE OnlyErr(errUnexpectedStatusCode(resp.status, resp.body))

\* server.go 345-383.
UpdateKeyLimitBytes(bytes, doErr, resp) ==
    IF doErr # NilErr THEN OnlyErr(errDoUpdateKeyLimitBytes(doErr))
    ELSE IF resp.status = StatusNoContent THEN OnlyErr(NilErr)
    ELSE IF resp.status = StatusBadRequest
        THEN OnlyErr(errInvalidDataLimit(StatusBadRequest, bytes))
    ELSE OnlyErr(errUnexpectedStatusCode(resp.status, resp.body))

\* server.go 397-424.
DeleteKeyLimitBytes(doErr, resp) ==
    IF doErr # NilErr THEN OnlyErr(errDoDeleteKeyLimitBytes(doErr))
    ELSE IF resp.status = StatusNoContent THEN OnlyErr(NilErr)
    ELSE OnlyErr(errUnexpectedStatusCode(resp.status, resp.body))

\* access keys, 285-314.
CreateAccessKey(doErr, resp) ==
    IF doErr # NilErr THEN OnlyErr(errDoCreateAccessKey(doErr))
    ELSE IF resp.status = StatusCreated
        THEN unmarshalJSONWithError(resp.body, "types.AccessKey")
    ELSE OnlyErr(errUnexpectedStatusCode(resp.status, resp.body))

\* access keys, 322-342.
GetAccessKeys(doErr, resp) ==
    IF doErr # NilErr THEN OnlyErr(errDoGetAccessKeys(doErr))
    ELSE IF resp.status = StatusOK
        THEN unmarshalAccessKeysResponse(resp.body, "types.AccessKey")
    ELSE OnlyErr(errUnexpectedStatusCode(resp.status, resp.body))

\* A GetAccessKey without the branch for 404.
GetAccessKeyUnawareOfNotFound(accessKeyID, doErr, resp) ==
    IF doErr # NilErr THEN OnlyErr(errDoGetAccessKey(doErr))
    ELSE IF resp.status = StatusOK
        THEN unmarshalJSONWithError(resp.body, "types.AccessKey")
    ELSE OnlyErr(errUnexpectedStatusCode(resp.status, resp.body))

\* access keys, 351-373.
GetAccessKey(accessKeyID, doErr, resp) ==
    IF doErr # NilErr THEN OnlyErr(errDoGetAccessKey(doErr))
    ELSE IF resp.status = StatusOK
        THEN unmarshalJSONWithError(resp.body, "types.AccessKey")
    ELSE IF resp.status = StatusNotFound
        THEN OnlyErr(errAccessKeyNotFound(StatusNotFound, accessKeyID))
    ELSE OnlyErr(errUnexpectedStatusCode(resp.status, resp.body))

\* access keys, 382-413.
UpdateAccessKey(accessKeyID, doErr, resp) ==
    IF doErr # NilErr THEN OnlyErr(errDoUpdateAccessKey(doErr))
    ELSE IF resp.status = StatusCreated
        THEN unmarshalJSONWithError(resp.body, "types.AccessKey")
    ELSE IF resp.status = StatusNotFound
        THEN OnlyErr(errAccessKeyNotFound(StatusNotFound, accessKeyID))
    ELSE OnlyErr(errUnexpectedStatusCode(resp.status, resp.body))

\* access keys, 421-443.
DeleteAccessKey(accessKeyID, doErr, resp) ==
    IF doErr # NilErr THEN OnlyErr(errDoDeleteAccessKey(doErr))
    ELSE IF resp.status = StatusNoContent THEN OnlyErr(NilErr)
    ELSE IF resp.status = StatusNotFound
        THEN OnlyErr(errAccessKeyNotFound(StatusNotFound, accessKeyID))
    ELSE OnlyErr(errUnexpectedStatusCode(resp.status, resp.body))

\* access keys, 447-477.
UpdateNameAccessKey(accessKeyID, doErr, resp) ==
    IF doErr # NilErr THEN OnlyErr(errDoUpdateNameAccessKey(doErr))
    ELSE IF resp.status = StatusNoContent THEN OnlyErr(NilErr)
    ELSE IF resp.status = StatusNotFound
        THEN OnlyErr(errAccessKeyNotFound(StatusNotFound, accessKeyID))
    ELSE OnlyErr(errUnexpectedStatusCode(resp.status, resp.body))

\* access keys, 486-520; the limit is the number of bytes asked for.
UpdateDataLimitAccessKey(accessKeyID, bytes, doErr, resp) ==
    IF doErr # NilErr THEN OnlyErr(errDoUpdateDataLimitAccessKey(doErr))
    ELSE IF resp.status = StatusNoContent THEN OnlyErr(NilErr)
    ELSE IF resp.status = StatusBadRequest
        THEN OnlyErr(errInvalidDataLimit(StatusBadRequest, bytes))
    ELSE IF resp.status = StatusNotFound
        THEN OnlyErr(errAccessKeyNotFound(StatusNotFound, accessKeyID))
    ELSE OnlyErr(errUnexpectedStatusCode(resp.status, resp.body))

\* access keys, 528-550.
DeleteDataLimitAccessKey(accessKeyID, doErr, resp) ==
    IF doErr # NilErr THEN OnlyErr(errDoDeleteDataLimitAccessKey(doErr))
    ELSE IF resp.status = StatusNoContent THEN OnlyErr(NilErr)
    ELSE IF resp.status = StatusNotFound
        THEN OnlyErr(errAccessKeyNotFound(StatusNotFound, accessKeyID))
    ELSE OnlyErr(errUnexpectedStatusCode(resp.status, resp.body))

\* metrics.go 13-34: the Doer's error is returned as it is.
GetMetricsTransfer(doErr, resp) ==
    IF doErr # NilErr THEN OnlyErr(doErr)
    ELSE IF resp.status = StatusOK
        THEN unmarshalJSONWithError(resp.body, "types.MetricsTransfer")
    ELSE OnlyErr(errUnexpected(resp.status, resp.body))

\* experimental.go 14-38: the Doer's error is returned as it is, and the body
\* is decoded whatever the status.
GetExperimentalMetrics(doErr, resp) ==
    IF doErr # NilErr THEN OnlyErr(doErr)
    ELSE unmarshalJSONWithError(resp.body, "types.ExperimentalMetricsResponse")

(***************************************************************************)
(* Part 3: strings, URLs and the Client's URL templates                    *)
(* (outline/client.go, outline/path.go)                                    *)
(***************************************************************************)
\* strings.Index, counting from 1: where sub first starts in s, 0 if nowhere.
stringsIndex(s, sub) ==
    IF \E i \in 1 .. (Len(s) - Len(sub) + 1) :
           SubSeq(s, i, i + Len(sub) - 1) = sub
    THEN CHOOSE i \in 1 .. (Len(s) - Len(sub) + 1) :
            /\ SubSeq(s, i, i + Len(sub) - 1) = sub
            /\ \A j \in 1 .. (i - 1) : SubSeq(s, j, j + Len(sub) - 1) # sub
    ELSE 0

\* strings.Replace(s, old, new, 1).
stringsReplaceOnce(s, old, new) ==
    IF stringsIndex(s, old) = 0 THEN s
    ELSE (SubSeq(s, 1, stringsIndex(s, old) - 1) \o new)
             \o SubSeq(s, stringsIndex(s, old) + Len(old), Len(s))

\* The secret and the parsed base URL (with the secret joined to its path)
\* the Client was constructed from.
Secret == "s3cr3t"
ParsedBase == [scheme |-> "https", host |-> "host:1", path |-> "/pre/s3cr3t",
               rawQuery |-> ""]

\* parsedBase.ResolveReference(&url.URL{Path: p}), client.go 92-94; every p
\* given starts with "/", and a reference with an absolute path takes the
\* place of the base's path.
resolveFrom(base, p) ==
    [scheme |-> base.scheme, host |-> base.host, path |-> p, rawQuery |-> ""]
resolve(p) == resolveFrom(ParsedBase, p)

\* The endpoint paths of client.go 100-135, by the Client field they fill.
EndpointPath(field) ==
    CASE field = "getServerInfoPath" -> "/server"
      [] field = "putServerHostnamePath" -> "/server/hostname-for-access-keys"
      [] field = "putServerPortPath" -> "/server/port-for-new-access-keys"
      [] field = "putServerNamePath" -> "/name"
      [] field = "getMetricsEnabledPath" -> "/metrics/enabled"
      [] field = "putMetricsEnabledPath" -> "/metrics/enabled"
      [] field = "putServerAccessKeyDataLimitPath" ->
            "/server/access-key-data-limit"
      [] field = "deleteServerAccessKeyDataLimitPath" ->
            "/server/access-key-data-limit"
      [] field = "postAccessKeyPath" -> "/access-keys"
      [] field = "getAccessKeysPath" -> "/access-keys"
      [] field = "getAccessKeyPath" -> "/access-keys/{id}"
      [] field = "putAccessKeyPath" -> "/access-keys/{id}"
      [] field = "deleteAccessKeyPath" -> "/access-keys/{id}"
      [] field = "putAccessKeyNamePath" -> "/access-keys/{id}/name"
      [] field = "putAccessKeyDataLimitPath" -> "/access-keys/{id}/data-limit"
      [] field = "deleteAccessKeyDataLimitPath" ->
            "/access-keys/{id}/data-limit"
      [] field = "getMetricsTransferPath" -> "/metrics/transfer"
      [] field = "getExperimentalMetricsPath" -> "/experimental/server/metrics"

\* The *url.URL fields of Client that setIDInPath is given.
IdPathFields ==
    {"getAccessKeyPath", "putAccessKeyPath", "deleteAccessKeyPath",
     "putAccessKeyNamePath", "putAccessKeyDataLimitPath",
     "deleteAccessKeyDataLimitPath"}

\* The *url.URL fields whose String() is the request URL as it is.
PlainPathFields ==
    {"getServerInfoPath", "putServerHostnamePath", "putServerPortPath",
     "putServerNamePath", "getMetricsEnabledPath", "putMetricsEnabledPath",
     "putServerAccessKeyDataLimitPath", "deleteServerAccessKeyDataLimitPath",
     "postAccessKeyPath", "getAccessKeysPath", "getMetricsTransferPath"}

PathFields == IdPathFields \cup PlainPathFields \cup {"getExperimentalMetricsPath"}

\* Goroutines calling Client operations at the same time; each has room for
\* one url.URL value of its own (the parameter u of setIDInPath, the local
\* requestURL of GetExperimentalMetrics), addressed by the caller's name.
Callers == {"caller1", "caller2"}

\* (*url.URL).EscapedPath for the paths here: braces are escaped.
RECURSIVE EscapedPath(_)
EscapedPath(path) ==
    IF path = "" THEN ""
    ELSE (CASE SubSeq(path, 1, 1) = "{" -> "%7B"
            [] SubSeq(path, 1, 1) = "}" -> "%7D"
            [] OTHER -> SubSeq(path, 1, 1))
         \o EscapedPath(SubSeq(path, 2, Len(path)))

\* (*url.URL).String: "scheme:" if there is a scheme, "//host" if there is a
\* scheme or a host (and a host or a path to follow), the escaped path, and
\* "?query" if there is a query.
URLString(u) ==
    ((((IF u.scheme = "" THEN "" ELSE u.scheme \o ":")
        \o (IF (u.scheme # "" \/ u.host # "") /\ (u.host # "" \/ u.path # "")
                THEN "//" ELSE ""))
        \o u.host) \o EscapedPath(u.path))
        \o (IF u.rawQuery = "" THEN "" ELSE "?" \o u.rawQuery)

IdleCall == [pc |-> "idle", field |-> "", arg |-> "", loc |-> "", out |-> ""]

URLInitValues ==
    /\ urls = [a \in PathFields \cup Callers |->
                 IF a \in PathFields THEN resolve(EndpointPath(a))
                 ELSE [scheme |-> "", host |-> "", path |-> "", rawQuery |-> ""]]
    /\ urlCalls = [k \in Callers |-> IdleCall]

NoOp == [name |-> "", arg |-> <<>>, doErr |-> NilErr, resp |-> NilResponse,
         result |-> OnlyErr(NilErr)]
NoBuilt == [ctor |-> "", up |-> NilErr, e |-> NilErr]
NoFn == [fn |-> ""]

ClientInitValues ==
    /\ opName = NoOp.name
    /\ opArg = NoOp.arg
    /\ opDoerErr = NoOp.doErr
    /\ opResp = NoOp.resp
    /\ opResult = NoOp.result
    /\ opPc = "idle"
    /\ doerLog = <<>>
    /\ built = NoBuilt
    /\ fnCall = NoFn

TransportInitValues ==
    /\ pc = [c \in Calls |-> "idle"]
    /\ hPc = [c \in Calls |-> "none"]
    /\ ctx = [c \in Calls |-> "active"]
    /\ ctxAtCall = [c \in Calls |-> "active"]
    /\ acqReq = [c \in Calls |-> 0]
    /\ acqResp = [c \in Calls |-> 0]
    /\ reqPool = {}
    /\ respPool = {}
    /\ reqNew = 0
    /\ respNew = 0
    /\ reqContent = [b \in BufIds |-> 0]
    /\ respContent = [b \in BufIds |-> EmptyBuf]
    /\ errCh = [c \in Calls |-> <<>>]
    /\ hErr = [c \in Calls |-> NoErr]
    /\ ret = [c \in Calls |-> [resp |-> NilResponse, err |-> NoErr]]
    /\ first = [c \in Calls |-> "none"]

Init == TransportInitValues /\ ClientInitValues /\ URLInitValues

Next ==
    \E c \in Calls :
        \/ DoStart(c)
        \/ HelperExchange(c)
        \/ HelperSend(c)
        \/ CtxCancel(c)
        \/ DoSelectErrCh(c)
        \/ DoSelectCtxDone(c)
        \/ DoCopy(c)
        \/ DoReturn(c)

Spec == Init /\ [][Next]_vars

\* Specification SpecLive: Spec with the fairness of the Go scheduler. A
\* goroutine that can take a step takes it: the helper's send, Do's select
\* once one of its cases is ready, and the statements after it. When the
\* underlying exchange returns and whether the context is cancelled is up to
\* the remote and the caller: no fairness is assumed of them.
Fairness ==
    \A c \in Calls :
        /\ WF_vars(HelperSend(c))
        /\ WF_vars(DoSelectErrCh(c) \/ DoSelectCtxDone(c))
        /\ WF_vars(DoCopy(c))
        /\ WF_vars(DoReturn(c))

SpecLive == Init /\ [][Next]_vars /\ Fairness

(***************************************************************************)
(* Specification SpecClient: the Client operations, each called with any   *)
(* outcome of its Doer, and the error constructors, each applied to any    *)
(* arguments. The variables hold the last call made.                       *)
(***************************************************************************)
networkError == errorsNew("networkError", "network error")
contextCanceled == errorsNew("context.Canceled", "context canceled")
wrappedDialError ==
    [t |-> "wrapError", msg |-> "dial tcp: network error", err |-> networkError]
joinedUpstream == errorsJoin(<<networkError, contextCanceled>>)

\* The errors a Doer, url.Parse or json.Unmarshal may hand to this package.
UpstreamErrs == {networkError, contextCanceled, wrappedDialError, joinedUpstream}

Statuses ==
    {StatusOK, StatusCreated, StatusNoContent, StatusBadRequest, StatusNotFound,
     StatusConflict, StatusInternalServerError, 418}
Bodies == {"", "{}", "oops"}

\* What a Doer returns: an error and no response, or a response and no error.
DoerOutcomes ==
    {[err |-> e, resp |-> NilResponse] : e \in UpstreamErrs}
    \cup {[err |-> NilErr, resp |-> [nil |-> FALSE, status |-> st, body |-> b]] :
             st \in Statuses, b \in Bodies}

Hostnames == {"", "example.com"}
Ports == {8080}
ServerNames == {"srv"}
ByteLimits == {0, 1024}
AccessKeyIDs == {"", "7"}
BaseURLs == {"", "https://host:1/"}
TypeNames == {"", "*types.Server"}

\* The call made: which operation, its arguments and what its Doer returned.
Called(name, arg, o) ==
    /\ opName' = name
    /\ opArg' = arg
    /\ opDoerErr' = o.err
    /\ opResp' = o.resp
    /\ doerLog' = <<o>>
    /\ built' = NoBuilt
    /\ UNCHANGED <<transportVars, opPc, fnCall, urls, urlCalls>>

GetServerInfoCall ==
    \E o \in DoerOutcomes :
        /\ opResult' = GetServerInfo(o.err, o.resp)
        /\ Called("GetServerInfo", <<>>, o)

UpdateServerHostnameCall ==
    \E o \in DoerOutcomes, h \in Hostnames :
        /\ opResult' = UpdateServerHostname(h, o.err, o.resp)
        /\ Called("UpdateServerHostname", <<h>>, o)

UpdatePortNewAccessKeysCall ==
    \E o \in DoerOutcomes, p \in Ports :
        /\ opResult' = UpdatePortNewAccessKeys(p, o.err, o.resp)
        /\ Called("UpdatePortNewAccessKeys", <<p>>, o)

UpdateServerNameCall ==
    \E o \in DoerOutcomes, n \in ServerNames :
        /\ opResult' = UpdateServerName(n, o.err, o.resp)
        /\ Called("UpdateServerName", <<n>>, o)

GetMetricsEnabledCall ==
    \E o \in DoerOutcomes :
        /\ opResult' = GetMetricsEnabled(o.err, o.resp)
        /\ Called("GetMetricsEnabled", <<>>, o)

UpdateMetricsEnabledCall ==
    \E o \in DoerOutcomes, en \in BOOLEAN :
        /\ opResult' = UpdateMetricsEnabled(en, o.err, o.resp)
        /\ Called("UpdateMetricsEnabled", <<en>>, o)

UpdateKeyLimitBytesCall ==
    \E o \in DoerOutcomes, n \in ByteLimits :
        /\ opResult' = UpdateKeyLimitBytes(n, o.err, o.resp)
        /\ Called("UpdateKeyLimitBytes", <<n>>, o)

DeleteKeyLimitBytesCall ==
    \E o \in DoerOutcomes :
        /\ opResult' = DeleteKeyLimitBytes(o.err, o.resp)
        /\ Called("DeleteKeyLimitBytes", <<>>, o)

CreateAccessKeyCall ==
    \E o \in DoerOutcomes :
        /\ opResult' = CreateAccessKey(o.err, o.resp)
        /\ Called("CreateAccessKey", <<>>, o)

GetAccessKeysCall ==
    \E o \in DoerOutcomes :
        /\ opResult' = GetAccessKeys(o.err, o.resp)
        /\ Called("GetAccessKeys", <<>>, o)

GetAccessKeyCall ==
    \E o \in DoerOutcomes, id \in AccessKeyIDs :
        /\ opResult' = GetAccessKey(id, o.err, o.resp)
        /\ Called("GetAccessKey", <<id>>, o)

UpdateAccessKeyCall ==
    \E o \in DoerOutcomes, id \in AccessKeyIDs :
        /\ opResult' = UpdateAccessKey(id, o.err, o.resp)
        /\ Called("UpdateAccessKey", <<id>>, o)

DeleteAccessKeyCall ==
    \E o \in DoerOutcomes, id \in AccessKeyIDs :
        /\ opResult' = DeleteAccessKey(id, o.err, o.resp)
        /\ Called("DeleteAccessKey", <<id>>, o)

UpdateNameAccessKeyCall ==
    \E o \in DoerOutcomes, id \in AccessKeyIDs :
        /\ opResult' = UpdateNameAccessKey(id, o.err, o.resp)
        /\ Called("UpdateNameAccessKey", <<id>>, o)

UpdateDataLimitAccessKeyCall ==
    \E o \in DoerOutcomes, id \in AccessKeyIDs, n \in ByteLimits :
        /\ opResult' = UpdateDataLimitAccessKey(id, n, o.err, o.resp)
        /\ Called("UpdateDataLimitAccessKey", <<id, n>>, o)

DeleteDataLimitAccessKeyCall ==
    \E o \in DoerOutcomes, id \in AccessKeyIDs :
        /\ opResult' = DeleteDataLimitAccessKey(id, o.err, o.resp)
        /\ Called("DeleteDataLimitAccessKey", <<id>>, o)

GetMetricsTransferCall ==
    \E o \in DoerOutcomes :
        /\ opResult' = GetMetricsTransfer(o.err, o.resp)
        /\ Called("GetMetricsTransfer", <<>>, o)

GetExperimentalMetricsCall ==
    \E o \in DoerOutcomes :
        /\ opResult' = GetExperimentalMetrics(o.err, o.resp)
        /\ Called("GetExperimentalMetrics", <<>>, o)

\* The constructors, by name.
ClientErrorCtors ==
    {"errInvalidHostname", "errInternalHostname", "errInvalidPort",
     "errPortAlreadyInUse", "errInvalidServerName", "errInvalidRequest",
     "errInvalidDataLimit", "errAccessKeyNotFound", "errUnexpectedStatusCode"}

DoErrorCtors ==
    {"errDoGetServerInfo", "errDoUpdateServerHostname",
     "errDoUpdatePortNewAccessKeys", "errDoUpdateServerName",
     "errDoGetMetricsEnabled", "errDoUpdateMetricsEnabled",
     "errDoUpdateKeyLimitBytes", "errDoDeleteKeyLimitBytes",
     "errDoCreateAccessKey", "errDoGetAccessKeys", "errDoGetAccessKey",
     "errDoUpdateAccessKey", "errDoDeleteAccessKey", "errDoUpdateNameAccessKey",
     "errDoUpdateDataLimitAccessKey", "errDoDeleteDataLimitAccessKey",
     "errDoGetMetricsTransfer", "errDoGetExperimentalMetrics"}

ApplyClientErrorCtor(ctor, statusCode, str, num) ==
    CASE ctor = "errInvalidHostname" -> errInvalidHostname(statusCode, str)
      [] ctor = "errInternalHostname" -> errInternalHostname(statusCode, str)
      [] ctor = "errInvalidPort" -> errInvalidPort(statusCode, num)
      [] ctor = "errPortAlreadyInUse" -> errPortAlreadyInUse(statusCode, num)
      [] ctor = "errInvalidServerName" -> errInvalidServerName(statusCode, str)
      [] ctor = "errInvalidRequest" -> errInvalidRequest(statusCode, str)
      [] ctor = "errInvalidDataLimit" -> errInvalidDataLimit(statusCode, num)
      [] ctor = "errAccessKeyNotFound" -> errAccessKeyNotFound(statusCode, str)
      [] ctor = "errUnexpectedStatusCode" ->
            errUnexpectedStatusCode(statusCode, str)

ApplyDoErrorCtor(ctor, err) ==
    CASE ctor = "errDoGetServerInfo" -> errDoGetServerInfo(err)
      [] ctor = "errDoUpdateServerHostname" -> errDoUpdateServerHostname(err)
      [] ctor = "errDoUpdatePortNewAccessKeys" ->
            errDoUpdatePortNewAccessKeys(err)
      [] ctor = "errDoUpdateServerName" -> errDoUpdateServerName(err)
      [] ctor = "errDoGetMetricsEnabled" -> errDoGetMetricsEnabled(err)
      [] ctor = "errDoUpdateMetricsEnabled" -> errDoUpdateMetricsEnabled(err)
      [] ctor = "errDoUpdateKeyLimitBytes" -> errDoUpdateKeyLimitBytes(err)
      [] ctor = "errDoDeleteKeyLimitBytes" -> errDoDeleteKeyLimitBytes(err)
      [] ctor = "errDoCreateAccessKey" -> errDoCreateAccessKey(err)
      [] ctor = "errDoGetAccessKeys" -> errDoGetAccessKeys(err)
      [] ctor = "errDoGetAccessKey" -> errDoGetAccessKey(err)
      [] ctor = "errDoUpdateAccessKey" -> errDoUpdateAccessKey(err)
      [] ctor = "errDoDeleteAccessKey" -> errDoDeleteAccessKey(err)
      [] ctor = "errDoUpdateNameAccessKey" -> errDoUpdateNameAccessKey(err)
      [] ctor = "errDoUpdateDataLimitAccessKey" ->
            errDoUpdateDataLimitAccessKey(err)
      [] ctor = "errDoDeleteDataLimitAccessKey" ->
            errDoDeleteDataLimitAccessKey(err)
      [] ctor = "errDoGetMetricsTransfer" -> errDoGetMetricsTransfer(err)
      [] ctor = "errDoGetExperimentalMetrics" ->
            errDoGetExperimentalMetrics(err)

Built(ctor, up, e) == [ctor |-> ctor, up |-> up, e |-> e]

NoCall ==
    /\ opName' = NoOp.name
    /\ opArg' = NoOp.arg
    /\ opDoerErr' = NoOp.doErr
    /\ opResp' = NoOp.resp
    /\ opResult' = NoOp.result
    /\ doerLog' = <<>>
    /\ UNCHANGED <<transportVars, opPc, fnCall, urls, urlCalls>>

BuildClientError ==
    \E ctor \in ClientErrorCtors, st \in Statuses,
       str \in Hostnames \cup Bodies, num \in Ports \cup ByteLimits :
        /\ built' = Built(ctor, NilErr,
                          ApplyClientErrorCtor(ctor, st, str, num))
        /\ NoCall

BuildParseURLError ==
    \E u \in BaseURLs, up \in UpstreamErrs \cup {NilErr} :
        /\ built' = Built("errParseBaseURL", up, errParseBaseURL(u, up))
        /\ NoCall

BuildUnmarshalError ==
    \/ \E d \in Bodies, ty \in TypeNames, up \in UpstreamErrs \cup {NilErr} :
          /\ built' = Built("errUnmarshal", up, errUnmarshal(d, ty, up))
          /\ NoCall
    \/ \E ty \in TypeNames :
          /\ built' = Built("errUnmarshalEmptyBody", NilErr,
                            errUnmarshalEmptyBody(ty))
          /\ NoCall

BuildDoError ==
    \E ctor \in DoErrorCtors, up \in UpstreamErrs \cup {NilErr} :
        /\ built' = Built(ctor, up, ApplyDoErrorCtor(ctor, up))
        /\ NoCall

NextClient ==
    \/ GetServerInfoCall
    \/ UpdateServerHostnameCall
    \/ UpdatePortNewAccessKeysCall
    \/ UpdateServerNameCall
    \/ GetMetricsEnabledCall
    \/ UpdateMetricsEnabledCall
    \/ UpdateKeyLimitBytesCall
    \/ DeleteKeyLimitBytesCall
    \/ CreateAccessKeyCall
    \/ GetAccessKeysCall
    \/ GetAccessKeyCall
    \/ UpdateAccessKeyCall
    \/ DeleteAccessKeyCall
    \/ UpdateNameAccessKeyCall
    \/ UpdateDataLimitAccessKeyCall
    \/ DeleteDataLimitAccessKeyCall
    \/ GetMetricsTransferCall
    \/ GetExperimentalMetricsCall
    \/ BuildClientError
    \/ BuildParseURLError
    \/ BuildUnmarshalError
    \/ BuildDoError

SpecClient == Init /\ [][NextClient]_vars

(***************************************************************************)
(* Specification SpecDoer: one operation call at a time, statement by      *)
(* statement, recording every invocation of the Doer.  Each operation      *)
(* builds and logs its request, then executes resp, err := c.doer.Do(ctx,  *)
(* req), then turns what the Doer returned into its result.                *)
(***************************************************************************)
OperationCalls ==
    {[name |-> n, arg |-> <<>>] :
        n \in {"GetServerInfo", "GetMetricsEnabled", "DeleteKeyLimitBytes",
               "CreateAccessKey", "GetAccessKeys", "GetMetricsTransfer",
               "GetExperimentalMetrics"}}
    \cup {[name |-> "UpdateServerHostname", arg |-> <<h>>] : h \in Hostnames}
    \cup {[name |-> "UpdatePortNewAccessKeys", arg |-> <<p>>] : p \in Ports}
    \cup {[name |-> "UpdateServerName", arg |-> <<n>>] : n \in ServerNames}
    \cup {[name |-> "UpdateMetricsEnabled", arg |-> <<en>>] : en \in BOOLEAN}
    \cup {[name |-> "UpdateKeyLimitBytes", arg |-> <<n>>] : n \in ByteLimits}
    \cup {[name |-> n, arg |-> <<id>>] :
            n \in {"GetAccessKey", "UpdateAccessKey", "DeleteAccessKey",
                   "UpdateNameAccessKey", "DeleteDataLimitAccessKey"},
            id \in AccessKeyIDs}
    \cup {[name |-> "UpdateDataLimitAccessKey", arg |-> <<id, n>>] :
            id \in AccessKeyIDs, n \in ByteLimits}

\* What the operation name returns, after its c.doer.Do call, for the
\* arguments arg and the Doer's answer doErr, resp.
Operate(name, arg, doErr, resp) ==
    CASE name = "GetServerInfo" -> GetServerInfo(doErr, resp)
      [] name = "UpdateServerHostname" ->
             UpdateServerHostname(arg[1], doErr, resp)
      [] name = "UpdatePortNewAccessKeys" ->
             UpdatePortNewAccessKeys(arg[1], doErr, resp)
      [] name = "UpdateServerName" -> UpdateServerName(arg[1], doErr, resp)
      [] name = "GetMetricsEnabled" -> GetMetricsEnabled(doErr, resp)
      [] name = "UpdateMetricsEnabled" ->
             UpdateMetricsEnabled(arg[1], doErr, resp)
      [] name = "UpdateKeyLimitBytes" ->
             UpdateKeyLimitBytes(arg[1], doErr, resp)
      [] name = "DeleteKeyLimitBytes" -> DeleteKeyLimitBytes(doErr, resp)
      [] name = "CreateAccessKey" -> CreateAccessKey(doErr, resp)
      [] name = "GetAccessKeys" -> GetAccessKeys(doErr, resp)
      [] name = "GetAccessKey" -> GetAccessKey(arg[1], doErr, resp)
      [] name = "UpdateAccessKey" -> UpdateAccessKey(arg[1], doErr, resp)
      [] name = "DeleteAccessKey" -> DeleteAccessKey(arg[1], doErr, resp)
      [] name = "UpdateNameAccessKey" ->
             UpdateNameAccessKey(arg[1], doErr, resp)
      [] name = "UpdateDataLimitAccessKey" ->
             UpdateDataLimitAccessKey(arg[1], arg[2], doErr, resp)
      [] name = "DeleteDataLimitAccessKey" ->
             DeleteDataLimitAccessKey(arg[1], doErr, resp)
      [] name = "GetMetricsTransfer" -> GetMetricsTransfer(doErr, resp)
      [] name = "GetExperimentalMetrics" ->
             GetExperimentalMetrics(doErr, resp)

\* The operation is entered: it builds its request and logs it.
OperationBegin ==
    /\ opPc = "idle"
    /\ \E call \in OperationCalls :
        /\ opName' = call.name
        /\ opArg' = call.arg
    /\ opDoerErr' = NoOp.doErr
    /\ opResp' = NoOp.resp
    /\ opResult' = NoOp.result
    /\ doerLog' = <<>>
    /\ opPc' = "dispatch"
    /\ UNCHANGED <<transportVars, built, fnCall, urls, urlCalls>>

\* resp, err := c.doer.Do(ctx, req)
OperationDispatch ==
    /\ opPc = "dispatch"
    /\ \E o \in DoerOutcomes :
        /\ opDoerErr' = o.err
        /\ opResp' = o.resp
        /\ doerLog' = Append(doerLog, o)
    /\ opPc' = "answered"
    /\ UNCHANGED <<transportVars, opName, opArg, opResult, built, fnCall,
                   urls, urlCalls>>

\* An operation that dispatches its request once more after the Doer failed.
OperationFinishRetrying ==
    /\ opPc = "answered"
    /\ IF opDoerErr # NilErr /\ Len(doerLog) = 1
          THEN /\ opPc' = "dispatch"
               /\ UNCHANGED opResult
          ELSE /\ opPc' = "idle"
               /\ opResult' = Operate(opName, opArg, opDoerErr, opResp)
    /\ UNCHANGED <<transportVars, opName, opArg, opDoerErr, opResp, doerLog,
                   built, fnCall, urls, urlCalls>>

\* The statements after the Doer call: the error check, the status switch
\* and the decoding, up to the return.
OperationFinish ==
    /\ opPc = "answered"
    /\ opPc' = "idle"
    /\ opResult' = Operate(opName, opArg, opDoerErr, opResp)
    /\ UNCHANGED <<transportVars, opName, opArg, opDoerErr, opResp, doerLog,
                   built, fnCall, urls, urlCalls>>

NextDoer ==
    \/ OperationBegin
    \/ OperationDispatch
    \/ OperationFinish

SpecDoer == Init /\ [][NextDoer]_vars

(***************************************************************************)
(* Part 3: formatting (outline/errors.go)                                  *)
(***************************************************************************)
RECURSIVE Error(_)
RECURSIVE JoinedMessages(_)
RECURSIVE withLastError(_, _)

\* err.(interface{ Unwrap() []error }): of the errors here only the result of
\* errors.Join has that method; a nil error has none.
HasUnwrapMany(err) == err # NilErr /\ err.t = "joinError"

\* A withLastError that surfaces the first joined error.
withLastErrorFirst(message, err) ==
    LET lastErr == IF HasUnwrapMany(err) /\ Len(err.errs) > 0
                   THEN err.errs[1] ELSE NilErr
    IN  IF lastErr # NilErr
        THEN (message \o "; reason: " \o Error(lastErr)) \o "."
        ELSE message \o "."

\* The cause found by following last elements down through nested joins.
RECURSIVE LastCause(_)
LastCause(err) ==
    IF HasUnwrapMany(err) /\ Len(err.errs) > 0
    THEN LastCause(err.errs[Len(err.errs)]) ELSE err

\* A withLastError that descends into nested joins.
withLastErrorDescending(message, err) ==
    LET lastErr == IF HasUnwrapMany(err) /\ Len(err.errs) > 0
                   THEN LastCause(err) ELSE NilErr
    IN  IF lastErr # NilErr
        THEN (message \o "; reason: " \o Error(lastErr)) \o "."
        ELSE message \o "."

\* errors.go 409-422.
withLastError(message, err) ==
    LET lastErr == IF HasUnwrapMany(err) /\ Len(err.errs) > 0
                   THEN err.errs[Len(err.errs)] ELSE NilErr
    IN  IF lastErr # NilErr
        THEN (message \o "; reason: " \o Error(lastErr)) \o "."
        ELSE message \o "."

\* (*joinError).Error: the messages of the joined errors, one per line.
JoinedMessages(es) ==
    IF Len(es) = 1 THEN Error(es[1])
    ELSE (Error(es[1]) \o "\n") \o JoinedMessages(Tail(es))

\* A ClientError.Error that prints the data clause whatever the data.
ClientErrorErrorAlwaysData(e) ==
    withLastError(((e.message \o "; status code: ") \o ToString(e.statusCode))
                      \o ("; data: " \o e.data),
                  e.err)

\* (*ClientError).Error, errors.go 79-85.
ClientErrorError(e) ==
    LET msg == (e.message \o "; status code: ") \o ToString(e.statusCode)
    IN  withLastError(IF Len(e.data) > 0 THEN (msg \o "; data: ") \o e.data
                                         ELSE msg,
                      e.err)

\* (*ParseURLError).Error, errors.go 192-200.
ParseURLErrorError(e) ==
    withLastError(IF e.baseURL = "" THEN e.message \o "; baseUrl is empty"
                  ELSE ((e.message \o "; (base url: ") \o e.baseURL) \o ")",
                  e.err)

\* (*UnmarshalError).Error, errors.go 225-234.
UnmarshalErrorError(e) ==
    LET typed == IF e.typeStr # ""
                 THEN ((e.message \o "; (type: ") \o e.typeStr) \o ")"
                 ELSE e.message
    IN  withLastError(IF Len(e.data) > 0 THEN (typed \o "; data: ") \o e.data
                                         ELSE typed,
                      e.err)

\* (*DoError).Error, errors.go 270-273.
DoErrorError(e) ==
    withLastError((e.message \o "; operation: ") \o e.operation, e.err)

\* err.Error() of a non-nil error, by its dynamic type.
Error(err) ==
    CASE err.t = "ClientError" -> ClientErrorError(err)
      [] err.t = "ParseURLError" -> ParseURLErrorError(err)
      [] err.t = "UnmarshalError" -> UnmarshalErrorError(err)
      [] err.t = "DoError" -> DoErrorError(err)
      [] err.t = "joinError" -> JoinedMessages(err.errs)
      [] OTHER -> err.msg

(***************************************************************************)
(* Specification SpecFormat: each pure function of the package applied to  *)
(* any arguments; fnCall holds the last call and what it returned.         *)
(***************************************************************************)
opVars == <<opName, opArg, opDoerErr, opResp, opResult, opPc, doerLog, built>>
urlVars == <<urls, urlCalls>>

firstError == errorsNew("firstError", "first error")
secondError == errorsNew("secondError", "second error")
thirdError == errorsNew("thirdError", "third error")

Messages == {"", "test message"}

\* Errors given to withLastError: none, plain ones, ones with Unwrap() error
\* only, joins of one, two and three errors, and joins whose last element
\* is a join again.
LastErrorInputs ==
    {NilErr, networkError, wrappedDialError, errDoGetServerInfo(networkError),
     errorsJoin(<<firstError>>),
     errorsJoin(<<firstError, secondError>>),
     errorsJoin(<<firstError, secondError, thirdError>>),
     errorsJoin(<<firstError, wrappedDialError>>),
     errorsJoin(<<firstError, errorsJoin(<<secondError, thirdError>>)>>),
     errorsJoin(<<errorsJoin(<<firstError, secondError>>),
                  errorsJoin(<<thirdError>>)>>),
     errorsJoin(<<firstError,
                  errorsJoin(<<secondError,
                               errorsJoin(<<thirdError, networkError>>)>>)>>)}

WithLastErrorCall ==
    \E m \in Messages, e \in LastErrorInputs :
        /\ fnCall' = [fn |-> "withLastError", message |-> m, err |-> e,
                      out |-> withLastError(m, e)]
        /\ UNCHANGED <<transportVars, opVars, urlVars>>

\* Response data and names that end up in error messages.
FormatData == Bodies \cup {"not found"}
FormatTypeNames == TypeNames \cup {"Server"}

\* e.Error() called on the error a constructor returned.
ErrorCalled(ctor, up, e) ==
    [fn |-> "Error", ctor |-> ctor, up |-> up, e |-> e, out |-> Error(e)]

ClientErrorErrorCall ==
    \E ctor \in ClientErrorCtors, st \in Statuses,
       str \in Hostnames \cup FormatData, num \in Ports \cup ByteLimits :
        /\ fnCall' = ErrorCalled(ctor, NilErr,
                                 ApplyClientErrorCtor(ctor, st, str, num))
        /\ UNCHANGED <<transportVars, opVars, urlVars>>

ParseURLErrorErrorCall ==
    \E u \in BaseURLs, up \in UpstreamErrs \cup {NilErr} :
        /\ fnCall' = ErrorCalled("errParseBaseURL", up, errParseBaseURL(u, up))
        /\ UNCHANGED <<transportVars, opVars, urlVars>>

UnmarshalErrorErrorCall ==
    \/ \E d \in FormatData, ty \in FormatTypeNames,
          up \in UpstreamErrs \cup {NilErr, jsonSyntaxError} :
          /\ fnCall' = ErrorCalled("errUnmarshal", up, errUnmarshal(d, ty, up))
          /\ UNCHANGED <<transportVars, opVars, urlVars>>
    \/ \E ty \in FormatTypeNames :
          /\ fnCall' = ErrorCalled("errUnmarshalEmptyBody", NilErr,
                                   errUnmarshalEmptyBody(ty))
          /\ UNCHANGED <<transportVars, opVars, urlVars>>

DoErrorErrorCall ==
    \E ctor \in DoErrorCtors, up \in UpstreamErrs \cup {NilErr} :
        /\ fnCall' = ErrorCalled(ctor, up, ApplyDoErrorCtor(ctor, up))
        /\ UNCHANGED <<transportVars, opVars, urlVars>>

\* ---- decoding (outline/unmarshal.go) ----
\* The type names the callers of the decoding helper pass: fmt.Sprintf("%T")
\* of the target, never empty.
DecodeTypeNames == {"types.Server", "types.AccessKey"}

\* json.Unmarshal (unmarshal.go 37) is reached only past the length check.
ReachesDecode(data) == Len(data) # 0

\* The message of an error, "" for a nil error.
MessageOf(err) == IF err = NilErr THEN "" ELSE Error(err)

UnmarshalWithErrorInternalCall ==
    \E d \in Bodies, ty \in DecodeTypeNames :
        /\ fnCall' = [fn |-> "unmarshalWithErrorInternal", data |-> d,
                      typeStr |-> "*" \o ty,
                      decoded |-> ReachesDecode(d),
                      err |-> unmarshalWithErrorInternal(d, "*" \o ty),
                      text |-> MessageOf(unmarshalWithErrorInternal(d, "*" \o ty))]
        /\ UNCHANGED <<transportVars, opVars, urlVars>>

UnmarshalJSONWithErrorCall ==
    \E d \in Bodies, ty \in DecodeTypeNames :
        /\ fnCall' = [fn |-> "unmarshalJSONWithError", data |-> d,
                      typeName |-> ty,
                      out |-> unmarshalJSONWithError(d, ty)]
        /\ UNCHANGED <<transportVars, opVars, urlVars>>

UnmarshalAccessKeysResponseCall ==
    \E d \in Bodies, ty \in DecodeTypeNames :
        /\ fnCall' = [fn |-> "unmarshalAccessKeysResponse", data |-> d,
                      typeName |-> ty,
                      out |-> unmarshalAccessKeysResponse(d, ty)]
        /\ UNCHANGED <<transportVars, opVars, urlVars>>

\* ---- client construction (outline/client.go 64-176) ----
HexDigits ==
    {"0", "1", "2", "3", "4", "5", "6", "7", "8", "9",
     "a", "b", "c", "d", "e", "f", "A", "B", "C", "D", "E", "F"}

\* s has a "%" that is not followed by two hex digits: what makes net/url's
\* unescape fail with an EscapeError.
HasInvalidEscape(s) ==
    \E i \in 1 .. Len(s) :
        /\ SubSeq(s, i, i) = "%"
        /\ \/ i + 2 > Len(s)
           \/ SubSeq(s, i + 1, i + 1) \notin HexDigits
           \/ SubSeq(s, i + 2, i + 2) \notin HexDigits

\* net/url's unescape of a path without invalid escapes; of the escapes only
\* "%25" (the percent sign) occurs in the paths here.
RECURSIVE Unescape(_)
Unescape(s) ==
    IF s = "" THEN ""
    ELSE IF Len(s) >= 3 /\ SubSeq(s, 1, 3) = "%25"
        THEN "%" \o Unescape(SubSeq(s, 4, Len(s)))
    ELSE SubSeq(s, 1, 1) \o Unescape(SubSeq(s, 2, Len(s)))

urlError(op, text) == [t |-> "url.Error", msg |-> (op \o ": ") \o text]
NoURL == [scheme |-> "", host |-> "", path |-> "", rawQuery |-> ""]

\* url.Parse(raw) for a raw URL without query or fragment: "" parses to the
\* empty URL; a raw URL starting with ":" has no scheme; the scheme ends at
\* "://", the host at the next "/", and the rest is the path, unescaped.
urlParse(raw) ==
    LET sep == stringsIndex(raw, "://")
        rest == IF sep = 0 THEN raw ELSE SubSeq(raw, sep + 3, Len(raw))
        slash == stringsIndex(rest, "/")
        host == IF sep = 0 THEN ""
                ELSE IF slash = 0 THEN rest ELSE SubSeq(rest, 1, slash - 1)
        rawPath == IF sep = 0 THEN raw
                   ELSE IF slash = 0 THEN "" ELSE SubSeq(rest, slash, Len(rest))
    IN  IF raw # "" /\ SubSeq(raw, 1, 1) = ":"
            THEN [url |-> NoURL,
                  err |-> urlError("parse", "missing protocol scheme")]
        ELSE IF HasInvalidEscape(rawPath)
            THEN [url |-> NoURL, err |-> urlError("parse", "invalid URL escape")]
        ELSE [url |-> [scheme |-> IF sep = 0 THEN "" ELSE SubSeq(raw, 1, sep - 1),
                       host |-> host, path |-> Unescape(rawPath),
                       rawQuery |-> ""],
              err |-> NilErr]

\* url.JoinPath(base, elem): base is parsed as a URL first, which fails as
\* url.Parse does; then elem is joined to its path with one slash between
\* (an empty element adds nothing).
urlJoinPath(base, elem) ==
    IF urlParse(base).err # NilErr
        THEN [path |-> "", err |-> urlParse(base).err]
    ELSE IF base = "" THEN [path |-> elem, err |-> NilErr]
    ELSE IF elem = "" THEN [path |-> base, err |-> NilErr]
    ELSE IF SubSeq(base, Len(base), Len(base)) = "/"
        THEN [path |-> base \o elem, err |-> NilErr]
    ELSE [path |-> (base \o "/") \o elem, err |-> NilErr]

\* initClient, client.go 82-176; of the Client built, the secret and the
\* parsed base its templates are resolved against.
initClient(baseURL, secret) ==
    IF urlParse(baseURL).err # NilErr
        THEN [client |-> NilVal,
              err |-> errParseBaseURL(baseURL, urlParse(baseURL).err)]
    ELSE IF urlJoinPath(urlParse(baseURL).url.path, secret).err # NilErr
        THEN [client |-> NilVal,
              err |-> errParseBaseURL(
                          baseURL,
                          urlJoinPath(urlParse(baseURL).url.path, secret).err)]
    ELSE [client |-> [nil |-> FALSE, secret |-> secret,
                      base |-> [urlParse(baseURL).url EXCEPT !.path =
                                   urlJoinPath(@, secret).path]],
          err |-> NilErr]

\* NewClient, client.go 68-70.
NewClient(baseURL, secret) == initClient(baseURL, secret)

\* MustNewClient, client.go 73-80: panics with the error, or returns c.
MustNewClient(baseURL, secret) ==
    IF initClient(baseURL, secret).err # NilErr
        THEN [panicked |-> TRUE, client |-> NilVal,
              value |-> initClient(baseURL, secret).err]
    ELSE [panicked |-> FALSE, client |-> initClient(baseURL, secret).client,
          value |-> NilErr]

\* Base URLs given to the constructors: a well-formed one, the empty one, one
\* without scheme, one with a bad escape, and one whose path parses but
\* cannot be parsed again when the secret is joined to it.
NewClientBaseURLs ==
    {"https://host:1/pre", "https://host:1", "", "://host:1/pre",
     "https://host:1/%zz", "https://host:1/a%25zz"}
Secrets == {Secret, ""}

NewClientCall ==
    \E u \in NewClientBaseURLs, sec \in Secrets :
        /\ fnCall' = [fn |-> "NewClient", baseURL |-> u, secret |-> sec,
                      out |-> NewClient(u, sec)]
        /\ UNCHANGED <<transportVars, opVars, urlVars>>

MustNewClientCall ==
    \E u \in NewClientBaseURLs, sec \in Secrets :
        /\ fnCall' = [fn |-> "MustNewClient", baseURL |-> u, secret |-> sec,
                      out |-> MustNewClient(u, sec)]
        /\ UNCHANGED <<transportVars, opVars, urlVars>>

\* ---- maskSecretPath (outline/path.go 8-24) ----
\* strings.Split(s, "/"): the pieces of s between slashes, empty ones kept;
\* a string without a slash is its own single piece.
RECURSIVE stringsSplit(_)
stringsSplit(s) ==
    LET i == stringsIndex(s, "/")
    IN  IF i = 0 THEN <<s>>
        ELSE <<SubSeq(s, 1, i - 1)>> \o stringsSplit(SubSeq(s, i + 1, Len(s)))

\* strings.Join(parts, "/").
RECURSIVE stringsJoin(_)
stringsJoin(parts) ==
    IF Len(parts) = 0 THEN ""
    ELSE IF Len(parts) = 1 THEN parts[1]
    ELSE (parts[1] \o "/") \o stringsJoin(Tail(parts))

Mask == "*****"

\* A masking that also hides every segment the secret is a prefix of.
maskSecretPathByPrefix(raw, secret) ==
    IF secret = "" THEN raw
    ELSE LET parts == stringsSplit(raw)
         IN  stringsJoin([i \in 1 .. Len(parts) |->
                 IF /\ Len(parts[i]) >= Len(secret)
                    /\ SubSeq(parts[i], 1, Len(secret)) = secret
                     THEN Mask ELSE parts[i]])

maskSecretPath(raw, secret) ==
    IF secret = "" THEN raw
    ELSE LET parts == stringsSplit(raw)
         IN  stringsJoin([i \in 1 .. Len(parts) |->
                 IF parts[i] = secret THEN Mask ELSE parts[i]])

\* Raw paths and secrets given to maskSecretPath, after TestMaskSecretPath.
MaskRaws ==
    {"", "s3cr3t", "/s3cr3t", "/s3cr3t/", "s3cr3t/data", "/api/s3cr3t/data",
     "/api/data/s3cr3t", "/api/data", "/api/s3cr3t4/data", "/xs3cr3t/y",
     "/s3cr3t/s3cr3t4", "//s3cr3t//foo//", "/s3cr3t/foo/s3cr3t/bar/",
     "/a/b/c/a/d", "/api//data/", "/api/ /data/"}
MaskSecrets == {"", "s3cr3t", "a", "/", " "}

MaskSecretPathCall ==
    \E raw \in MaskRaws, sec \in MaskSecrets :
        /\ fnCall' = [fn |-> "maskSecretPath", raw |-> raw, secret |-> sec,
                      out |-> maskSecretPath(raw, sec)]
        /\ UNCHANGED <<transportVars, opVars, urlVars>>

\* ---- logRequest (unnamed/part_010 9-32) and the requests it is given ----
\* The operation that uses each URL field, with its HTTP method (the
\* Request literals of server.go, metrics.go, experimental.go, part_002).
Operation(field) ==
    CASE field = "getServerInfoPath" -> [name |-> "GetServerInfo", method |-> "GET"]
      [] field = "putServerHostnamePath" ->
            [name |-> "UpdateServerHostname", method |-> "PUT"]
      [] field = "putServerPortPath" ->
            [name |-> "UpdatePortNewAccessKeys", method |-> "PUT"]
      [] field = "putServerNamePath" ->
            [name |-> "UpdateServerName", method |-> "PUT"]
      [] field = "getMetricsEnabledPath" ->
            [name |-> "GetMetricsEnabled", method |-> "GET"]
      [] field = "putMetricsEnabledPath" ->
            [name |-> "UpdateMetricsEnabled", method |-> "PUT"]
      [] field = "putServerAccessKeyDataLimitPath" ->
            [name |-> "UpdateKeyLimitBytes", method |-> "PUT"]
      [] field = "deleteServerAccessKeyDataLimitPath" ->
            [name |-> "DeleteKeyLimitBytes", method |-> "DELETE"]
      [] field = "postAccessKeyPath" ->
            [name |-> "CreateAccessKey", method |-> "POST"]
      [] field = "getAccessKeysPath" ->
            [name |-> "GetAccessKeys", method |-> "GET"]
      [] field = "getAccessKeyPath" -> [name |-> "GetAccessKey", method |-> "GET"]
      [] field = "putAccessKeyPath" ->
            [name |-> "UpdateAccessKey", method |-> "PUT"]
      [] field = "deleteAccessKeyPath" ->
            [name |-> "DeleteAccessKey", method |-> "DELETE"]
      [] field = "putAccessKeyNamePath" ->
            [name |-> "UpdateNameAccessKey", method |-> "PUT"]
      [] field = "putAccessKeyDataLimitPath" ->
            [name |-> "UpdateDataLimitAccessKey", method |-> "PUT"]
      [] field = "deleteAccessKeyDataLimitPath" ->
            [name |-> "DeleteDataLimitAccessKey", method |-> "DELETE"]
      [] field = "getMetricsTransferPath" ->
            [name |-> "GetMetricsTransfer", method |-> "GET"]
      [] field = "getExperimentalMetricsPath" ->
            [name |-> "GetExperimentalMetrics", method |-> "GET"]

\* DefaultHeaders() as fmt's %v prints the map, keys sorted.
DefaultHeadersText == "map[Accept:application/json Content-Type:application/json]"

\* The request URL an operation of client c builds from its field: the
\* template's String(), with the id put in for the by-id fields and the
\* since query set for the experimental metrics; arg is the id or the
\* formatted duration.
RequestURL(c, field, arg) ==
    LET u == resolveFrom(c.base, EndpointPath(field))
    IN  IF field \in IdPathFields
            THEN URLString([u EXCEPT !.path = stringsReplaceOnce(@, "{id}", arg)])
        ELSE IF field = "getExperimentalMetricsPath"
            THEN URLString([u EXCEPT !.rawQuery = "since=" \o arg])
        ELSE URLString(u)

LogLine(methodName, method, url) ==
    ((((((methodName \o ": sending request: method=") \o method) \o " url=")
        \o url) \o " headers=") \o DefaultHeadersText)

\* A logRequest whose Info message shows the URL as it is.
logRequestUnmasked(c, methodName, method, url) ==
    [info |-> LogLine(methodName, method, url),
     debug |-> LogLine(methodName, method, url)]

\* logRequest: the messages given to Infof and to Debugf.
logRequest(c, methodName, method, url) ==
    [info |-> LogLine(methodName, method, maskSecretPath(url, c.secret)),
     debug |-> LogLine(methodName, method, url)]

\* Base URLs, secrets and access-key ids of the logged operations: the
\* secret absent from the base URL, in its path, and inside its host name;
\* an id that is the secret and one that contains it.
LogBaseURLs ==
    {"https://host:1", "https://host:1/s3cr3t", "", "https://s3cr3t.host:1"}
LogIDs == {"7", Secret, "k-s3cr3t"}
LogArgs(field) ==
    IF field \in IdPathFields THEN LogIDs
    ELSE IF field = "getExperimentalMetricsPath" THEN {"0s", "1h"}
    ELSE {""}

LogRequestCall ==
    \E u \in LogBaseURLs, sec \in Secrets, field \in PathFields :
        \E arg \in LogArgs(field) :
            /\ NewClient(u, sec).err = NilErr
            /\ fnCall' =
                   [fn |-> "logRequest", baseURL |-> u, secret |-> sec,
                    field |-> field,
                    url |-> RequestURL(NewClient(u, sec).client, field, arg),
                    out |-> logRequest(
                                NewClient(u, sec).client,
                                Operation(field).name, Operation(field).method,
                                RequestURL(NewClient(u, sec).client, field, arg))]
            /\ UNCHANGED <<transportVars, opVars, urlVars>>

NextFormat ==
    \/ WithLastErrorCall
    \/ ClientErrorErrorCall
    \/ ParseURLErrorErrorCall
    \/ UnmarshalErrorErrorCall
    \/ DoErrorErrorCall
    \/ UnmarshalWithErrorInternalCall
    \/ UnmarshalJSONWithErrorCall
    \/ UnmarshalAccessKeysResponseCall
    \/ NewClientCall
    \/ MustNewClientCall
    \/ MaskSecretPathCall

SpecFormat == Init /\ [][NextFormat]_vars

\* Specification SpecLogging: the operations of Clients built from the base
\* URLs and secrets above log their requests.
NextLogging == LogRequestCall

SpecLogging == Init /\ [][NextLogging]_vars

(***************************************************************************)
(* formatDuration (outline/utils.go 18-43).  A time.Duration is an int64   *)
(* count of nanoseconds; it is kept here as a sign and the hours, minutes, *)
(* seconds and nanoseconds of its magnitude, which lies between 0 and 2^63 *)
(* - 1, or is 2^63 for the one negative value that has no positive         *)
(* counterpart.                                                            *)
(***************************************************************************)
Duration(neg, h, m, s, ns) == [neg |-> neg, h |-> h, m |-> m, s |-> s, ns |-> ns]
\* math.MinInt64 and math.MaxInt64 nanoseconds.
MinDuration == Duration(TRUE, 2562047, 47, 16, 854775808)
MaxDuration == Duration(FALSE, 2562047, 47, 16, 854775807)

\* d < 0.
IsNegative(d) == d.neg

\* -d in int64: the negation of math.MinInt64 wraps around to itself.
Negate(d) ==
    IF d = MinDuration THEN d
    ELSE IF d.h = 0 /\ d.m = 0 /\ d.s = 0 /\ d.ns = 0 THEN d
    ELSE [d EXCEPT !.neg = ~@]

\* How close, in nanoseconds, the part of d past its whole hours must be to
\* a full hour for float64(hour) + float64(nsec)/3.6e12 to round to the next
\* whole number: half a unit in the last place of a float64 near hour, as
\* nanoseconds of an hour (0 below 4096 hours).
HalfUlpNanos(h) ==
    CASE h < 4096 -> 0
      [] h >= 4096 /\ h < 8192 -> 1
      [] h >= 8192 /\ h < 16384 -> 3
      [] h >= 16384 /\ h < 32768 -> 6
      [] h >= 32768 /\ h < 65536 -> 13
      [] h >= 65536 /\ h < 131072 -> 26
      [] h >= 131072 /\ h < 262144 -> 52
      [] h >= 262144 /\ h < 524288 -> 104
      [] h >= 524288 /\ h < 1048576 -> 209
      [] h >= 1048576 /\ h < 2097152 -> 419
      [] OTHER -> 838

\* int64(d.Hours()): Hours() is float64(d / Hour) + float64(d % Hour)/3.6e12,
\* and the conversion truncates toward zero.
Hours(d) ==
    LET up == IF /\ d.m = 59
                 /\ d.s = 59
                 /\ 1000000000 - d.ns <= HalfUlpNanos(d.h)
              THEN 1 ELSE 0
    IN  IF d.neg THEN 0 - (d.h + up) ELSE d.h + up

\* int64(d.Minutes()) and int64(d.Seconds()), for the d they are computed
\* of (less than an hour, less than a minute: no rounding there).
Minutes(d) == IF d.neg THEN 0 - (60 * d.h + d.m) ELSE 60 * d.h + d.m
Seconds(d) == IF d.neg THEN 0 - (60 * d.m + d.s) ELSE 60 * d.m + d.s

formatDuration(d0) ==
    LET sign == IF IsNegative(d0) THEN "-" ELSE ""
        d == IF IsNegative(d0) THEN Negate(d0) ELSE d0
    IN  IF Hours(d) # 0 THEN (sign \o ToString(Hours(d))) \o "h"
        ELSE IF Minutes(d) # 0 THEN (sign \o ToString(Minutes(d))) \o "m"
        ELSE IF Seconds(d) # 0 THEN (sign \o ToString(Seconds(d))) \o "s"
        ELSE "0s"

\* Durations formatted: those of TestFormatDuration and their neighbours,
\* the ends of the int64 range, and durations a nanosecond short of an hour.
DurationHours == {0, 1, 2, 25, 1000, 4096}
DurationMinutes == {0, 1, 17, 59}
DurationSeconds == {0, 1, 42, 59}
DurationNanos == {0, 1, 999999999}
Durations ==
    ({Duration(neg, h, m, s, ns) :
         neg \in BOOLEAN, h \in DurationHours, m \in DurationMinutes,
         s \in DurationSeconds, ns \in DurationNanos}
        \ {Duration(TRUE, 0, 0, 0, 0)})
    \cup {MinDuration, MaxDuration}

FormatDurationCall ==
    \E d \in Durations :
        /\ fnCall' = [fn |-> "formatDuration", d |-> d, out |-> formatDuration(d)]
        /\ UNCHANGED <<transportVars, opVars, urlVars>>

\* Specification SpecDuration: formatDuration applied to the durations above.
NextDuration == FormatDurationCall

SpecDuration == Init /\ [][NextDuration]_vars

(***************************************************************************)
(* Specification SpecOptions: initClient's defaults and options            *)
(* (outline/client.go 167-175, outline/options.go 17-49).  A value of an   *)
(* interface type is the nil interface or a dynamic value of some kind: a  *)
(* pointer, nil or not, or a value of another kind that can be nil, such   *)
(* as a function type with the interface's methods.                        *)
(***************************************************************************)
NilInterface == [kind |-> "Invalid", isNil |-> TRUE, id |-> ""]
Pointer(id) == [kind |-> "Ptr", isNil |-> FALSE, id |-> id]
NilPointer == [kind |-> "Ptr", isNil |-> TRUE, id |-> ""]
NilFunc == [kind |-> "Func", isNil |-> TRUE, id |-> ""]

\* An isNilInterface that compares the interface with nil only.
isNilInterfaceComparing(iface) == iface = NilInterface

\* options.go 40-49.
isNilInterface(iface) ==
    IF iface = NilInterface THEN TRUE
    ELSE iface.kind = "Ptr" /\ iface.isNil

\* options.go 20-28: the Option returned by WithClient(client), applied to c.
WithClient(client, c) ==
    IF isNilInterface(client) THEN c ELSE [c EXCEPT !.doer = client]

\* options.go 30-38: the Option returned by WithLogger(logger), applied to c.
WithLogger(logger, c) ==
    IF isNilInterface(logger) THEN c ELSE [c EXCEPT !.logger = logger]

\* client.go 167-168: the doer and logger initClient starts from.
DefaultDoer == Pointer("http.NewClient()")
DefaultLogger == Pointer("logger.NewNoopLogger()")

\* An Option value: WithClient(arg), WithLogger(arg), or the nil Option.
NilOption == [name |-> "nil", arg |-> NilInterface]
OptionOf(name, arg) == [name |-> name, arg |-> arg]

\* opt(c), client.go 171.
ApplyOption(opt, c) ==
    IF opt.name = "WithClient" THEN WithClient(opt.arg, c)
    ELSE WithLogger(opt.arg, c)

MaxOptions == 3

DoerArgs == {NilInterface, NilPointer, NilFunc, Pointer("doerA"),
             Pointer("doerB")}
LoggerArgs == {NilInterface, NilPointer, Pointer("loggerA"),
               Pointer("loggerB")}
OptionValues ==
    {OptionOf("WithClient", a) : a \in DoerArgs}
    \cup {OptionOf("WithLogger", a) : a \in LoggerArgs}
    \cup {NilOption}
OptionLists == UNION {[1 .. n -> OptionValues] : n \in 0 .. MaxOptions}

\* client.go 138-168: initClient has built the Client with its defaults and
\* is about to range over options.
InitClientEnter ==
    /\ fnCall = NoFn
    /\ \E options \in OptionLists :
        fnCall' = [fn |-> "initClient", options |-> options, pos |-> 1,
                   pc |-> "range",
                   c |-> [doer |-> DefaultDoer, logger |-> DefaultLogger]]
    /\ UNCHANGED <<transportVars, opVars, urlVars>>

\* client.go 170-172: one iteration of the loop; calling a nil Option panics.
InitClientApplyOption ==
    /\ fnCall.fn = "initClient"
    /\ fnCall.pc = "range"
    /\ fnCall.pos <= Len(fnCall.options)
    /\ fnCall' =
        IF fnCall.options[fnCall.pos] = NilOption
            THEN [fnCall EXCEPT !.pc = "panicked"]
        ELSE [fnCall EXCEPT !.pos = @ + 1,
                            !.c = ApplyOption(fnCall.options[fnCall.pos], @)]
    /\ UNCHANGED <<transportVars, opVars, urlVars>>

\* client.go 174: return c, nil.
InitClientReturn ==
    /\ fnCall.fn = "initClient"
    /\ fnCall.pc = "range"
    /\ fnCall.pos > Len(fnCall.options)
    /\ fnCall' = [fnCall EXCEPT !.pc = "returned"]
    /\ UNCHANGED <<transportVars, opVars, urlVars>>

NextOptions ==
    \/ InitClientEnter
    \/ InitClientApplyOption
    \/ InitClientReturn

SpecOptions == Init /\ [][NextOptions]_vars

(***************************************************************************)
(* Specification SpecURLs: callers building request URLs from the Client's *)
(* URL templates at the same time, one statement per step.                 *)
(***************************************************************************)
Sinces == {"0s", "1h"}

\* A dereference that hands out the stored url.URL itself.
CopyTargetAliased(field, k) == field

\* `*c.<field>` (passed as setIDInPath's parameter, or assigned to
\* requestURL): the value is copied to storage of the caller's own.
CopyTarget(field, k) == k

\* setIDInPath(*c.<field>, accessKeyID): the argument is copied into u.
SetIDCopy(k) ==
    /\ urlCalls[k].pc = "idle"
    /\ \E f \in IdPathFields, id \in AccessKeyIDs :
          /\ urls' = [urls EXCEPT ![CopyTarget(f, k)] = urls[f]]
          /\ urlCalls' = [urlCalls EXCEPT ![k] =
                             [pc |-> "copied", field |-> f, arg |-> id,
                              loc |-> CopyTarget(f, k), out |-> ""]]
    /\ UNCHANGED <<transportVars, opVars, fnCall>>

\* path.go 29-30: u.Path = strings.Replace(u.Path, "{id}", id, 1).
SetIDReplace(k) ==
    /\ urlCalls[k].pc = "copied"
    /\ urlCalls[k].field \in IdPathFields
    /\ urls' = [urls EXCEPT ![urlCalls[k].loc].path =
                   stringsReplaceOnce(@, "{id}", urlCalls[k].arg)]
    /\ urlCalls' = [urlCalls EXCEPT ![k].pc = "replaced"]
    /\ UNCHANGED <<transportVars, opVars, fnCall>>

\* path.go 31: return u.String().
SetIDString(k) ==
    /\ urlCalls[k].pc = "replaced"
    /\ urlCalls[k].field \in IdPathFields
    /\ urlCalls' = [urlCalls EXCEPT ![k].pc = "idle",
                                    ![k].out = URLString(urls[urlCalls[k].loc])]
    /\ UNCHANGED <<transportVars, opVars, fnCall, urls>>

\* experimental.go 17: requestURL := *c.getExperimentalMetricsPath.
ExperimentalCopy(k) ==
    /\ urlCalls[k].pc = "idle"
    /\ \E since \in Sinces :
          LET f == "getExperimentalMetricsPath" IN
          /\ urls' = [urls EXCEPT ![CopyTarget(f, k)] = urls[f]]
          /\ urlCalls' = [urlCalls EXCEPT ![k] =
                             [pc |-> "copied", field |-> f, arg |-> since,
                              loc |-> CopyTarget(f, k), out |-> ""]]
    /\ UNCHANGED <<transportVars, opVars, fnCall>>

\* experimental.go 19-21: the query gets since=<duration> (Set replaces any
\* value it had) and is encoded into requestURL.RawQuery.
ExperimentalSetQuery(k) ==
    /\ urlCalls[k].pc = "copied"
    /\ urlCalls[k].field = "getExperimentalMetricsPath"
    /\ urls' = [urls EXCEPT ![urlCalls[k].loc].rawQuery =
                   "since=" \o urlCalls[k].arg]
    /\ urlCalls' = [urlCalls EXCEPT ![k].pc = "replaced"]
    /\ UNCHANGED <<transportVars, opVars, fnCall>>

\* experimental.go 25: URL: requestURL.String().
ExperimentalString(k) ==
    /\ urlCalls[k].pc = "replaced"
    /\ urlCalls[k].field = "getExperimentalMetricsPath"
    /\ urlCalls' = [urlCalls EXCEPT ![k].pc = "idle",
                                    ![k].out = URLString(urls[urlCalls[k].loc])]
    /\ UNCHANGED <<transportVars, opVars, fnCall, urls>>

\* URL: c.<field>.String(), as the operations without id or query do.
PlainString(k) ==
    /\ urlCalls[k].pc = "idle"
    /\ \E f \in PlainPathFields :
          urlCalls' = [urlCalls EXCEPT ![k] =
                          [pc |-> "idle", field |-> f, arg |-> "", loc |-> f,
                           out |-> URLString(urls[f])]]
    /\ UNCHANGED <<transportVars, opVars, fnCall, urls>>

NextURLs ==
    \E k \in Callers :
        \/ SetIDCopy(k)
        \/ SetIDReplace(k)
        \/ SetIDString(k)
        \/ ExperimentalCopy(k)
        \/ ExperimentalSetQuery(k)
        \/ ExperimentalString(k)
        \/ PlainString(k)

SpecURLs == Init /\ [][NextURLs]_vars

(***************************************************************************)
(* Claims about the transport                                              *)
(***************************************************************************)
Returned(c) == pc[c] = "returned"
ReturnedResponse(c) == Returned(c) /\ ~ret[c].resp.nil

\* The dispatch of call c (the Do call together with its helper) is using the
\* pooled objects it acquired.
Dispatching(c) == pc[c] \in {"select", "copy", "defer"} \/ hPc[c] = "running"

\* C1: a Do entered with a context that is already cancelled returns that
\* context's error, never a transport error or a response.
C1_CancelledAtCallReturnsCtxErr ==
    \A c \in Calls :
        (Returned(c) /\ ctxAtCall[c] # "active") => ret[c] = Failure(ctx[c])

\* The outcome of the exchange itself: the transport error, or a response.
RealOutcome(c) ==
    IF hErr[c] # NoErr THEN ret[c] = Failure(hErr[c])
                       ELSE ret[c].err = NoErr /\ ~ret[c].resp.nil

\* C2: when the completion signal was delivered before the context was
\* cancelled Do returns the exchange's outcome, and when the context was
\* cancelled first Do returns the context's error.
C2_FirstSignalDecides ==
    \A c \in Calls :
        Returned(c) =>
            /\ first[c] = "completion" => RealOutcome(c)
            /\ first[c] = "cancel" => ret[c] = Failure(ctx[c])

\* C3: the pooled objects of a call are not released (Do has not returned)
\* while that call's helper is still inside the underlying exchange.
C3_NoReleaseWhileHelperRuns ==
    \A c \in Calls : Returned(c) => hPc[c] # "running"

\* C4: no pooled request and no pooled response is used by two dispatches
\* at the same time.
C4_BuffersExclusive ==
    \A c, d \in Calls :
        (c # d /\ Dispatching(c) /\ Dispatching(d)) =>
            (acqReq[c] # acqReq[d] /\ acqResp[c] # acqResp[d])

\* C5: at the step in which Do returns, on whatever path, both pooled objects
\* it acquired are back in their pools.
C5_ReleasedOnReturn ==
    [][\A c \in Calls :
          (~Returned(c) /\ Returned(c)') =>
              (acqReq[c] \in reqPool' /\ acqResp[c] \in respPool')]_vars

\* C5 witness: one call has returned on cancellation while its helper still
\* runs, another has returned a response.
C5_Witness ==
    \E c, d \in Calls :
        /\ Returned(c) /\ ret[c].err \in CtxErrs /\ hPc[c] = "running"
        /\ ReturnedResponse(d)

\* C6: the bytes of a returned Response's body never change afterwards,
\* whatever later calls do with the pooled objects.
C6_BodyIndependentOfPool ==
    [][\A c \in Calls :
          ReturnedResponse(c) =>
              BodyBytes(ret[c].resp.body)' = BodyBytes(ret[c].resp.body)]_vars

\* C6 witness: call c returned its answer, and a later call d acquired the
\* same pooled response, had another answer written into it and released it.
C6_Witness ==
    \E c, d \in Calls :
        /\ c # d
        /\ ReturnedResponse(c)
        /\ BodyBytes(ret[c].resp.body) = Answer(c).body
        /\ ReturnedResponse(d)
        /\ acqResp[d] = acqResp[c]
        /\ BodyBytes(ret[d].resp.body) = Answer(d).body

\* C7: a failed Do returns a nil response with exactly the context's error or
\* exactly the error of the underlying exchange; a response comes only with a
\* nil error, and Do never returns neither.
C7_ErrorsVerbatim ==
    \A c \in Calls :
        Returned(c) =>
            /\ ret[c].err # NoErr =>
                  /\ ret[c].resp = NilResponse
                  /\ ret[c].err = ctx[c] \/ ret[c].err = hErr[c]
            /\ ret[c].err = NoErr <=> ~ret[c].resp.nil

\* C7 witness: one call failed with the transport's error, another with its
\* context's error.
C7_Witness ==
    \E c, d \in Calls :
        /\ Returned(c) /\ ret[c].err \in TransportErrs
        /\ Returned(d) /\ ret[d].err \in CtxErrs

\* C23: each Do call starts exactly one helper (its helper starts running in
\* the step in which Do starts, and in no other step), and neither the
\* cancellation of the context nor the return of Do touches the helper: it
\* leaves the exchange only by the exchange returning, which stays possible
\* after Do has returned the context's error.
C23_OneHelperNeverInterrupted ==
    /\ [](\A c \in Calls : hPc[c] = "running" => ENABLED HelperExchange(c))
    /\ [][\A c \in Calls :
            /\ (hPc[c] # "running" /\ hPc'[c] = "running")
                   <=> (pc[c] = "idle" /\ pc'[c] # "idle")
            /\ (hPc[c] = "running" /\ hPc'[c] # "running") => HelperExchange(c)
            /\ (ctx'[c] # ctx[c] \/ (~Returned(c) /\ Returned(c)'))
                   => (hPc'[c] = hPc[c] /\ hErr'[c] = hErr[c])]_vars

\* C23 witness: Do returned the context's error and released the pooled
\* response, and only then the helper's exchange completed and wrote the
\* answer into it.
C23_Witness ==
    \E c \in Calls :
        /\ Returned(c) /\ ret[c].err \in CtxErrs
        /\ hPc[c] = "done" /\ hErr[c] = NoErr
        /\ acqResp[c] \in respPool
        /\ respContent[acqResp[c]] = Answer(c)

\* C24: the completion channel never holds more than one message and gets
\* one only in the helper's single send; the send is possible whenever the
\* helper has reached it, so once the underlying exchange has returned the
\* helper terminates, also when Do returned on cancellation and nobody will
\* receive the message.
C24_CompletionSendNeverBlocks ==
    /\ [](\A c \in Calls :
             /\ Len(errCh[c]) <= 1
             /\ hPc[c] = "send" => ENABLED HelperSend(c))
    /\ [][\A c \in Calls :
            Len(errCh'[c]) > Len(errCh[c])
                => (hPc[c] = "send" /\ hPc'[c] = "done")]_vars
    /\ \A c \in Calls : (hPc[c] = "send") ~> (hPc[c] = "done")

\* C24 witness: Do returned on cancellation, its helper has terminated, and
\* the message it sent is in the channel, never to be received.
C24_Witness ==
    \E c \in Calls :
        /\ Returned(c) /\ ret[c].err \in CtxErrs
        /\ hPc[c] = "done"
        /\ Len(errCh[c]) = 1

\* C25: Do waits only in its select. It leaves the select only when the
\* helper has sent its completion or the context is cancelled (it has no
\* timeout of its own), every other statement of Do can always be taken,
\* and once it was called and the underlying exchange has returned or the
\* context is cancelled, Do eventually returns.
C25_DoBlocksOnlyInSelect ==
    /\ [][\A c \in Calls :
            (pc[c] = "select" /\ pc'[c] # "select")
                => (hPc[c] = "done" \/ ctx[c] # "active")]_vars
    /\ [](\A c \in Calls :
             /\ pc[c] = "idle" => ENABLED DoStart(c)
             /\ pc[c] = "copy" => ENABLED DoCopy(c)
             /\ pc[c] = "defer" => ENABLED DoReturn(c))
    /\ \A c \in Calls :
           (pc[c] # "idle" /\ (hPc[c] # "running" \/ ctx[c] # "active"))
               ~> Returned(c)

\* C25 witness: one call waited and returned once its exchange had returned;
\* another is still waiting, its exchange running and its context active.
C25_Witness ==
    \E c, d \in Calls :
        /\ ReturnedResponse(c) /\ ctx[c] = "active"
        /\ pc[d] = "select" /\ hPc[d] = "running" /\ ctx[d] = "active"

\* Do reads the pooled response of call c in this step (lines 77-104).
ReadsResponse(c) == pc[c] = "copy" /\ pc'[c] = "defer"

\* C27: on the success path Do reads the pooled response only after it has
\* received the helper's completion signal (the helper has finished and its
\* message is taken) and before the response is released, and the Response
\* it returns is built from what its helper wrote last: the answer to its
\* own request.
C27_ReadsAfterCompletionBeforeRelease ==
    [][\A c \in Calls :
          ReadsResponse(c) =>
              /\ hPc[c] = "done" /\ Len(errCh[c]) = 0
              /\ acqResp[c] \notin respPool
              /\ ret'[c].resp.status = Answer(c).status
              /\ BodyBytes(ret'[c].resp.body) = Answer(c).body]_vars


(***************************************************************************)
(* Claims about the error taxonomy and the Client operations (SpecClient)  *)
(***************************************************************************)
\* The last call was an operation that returned a non-nil error.
OperationFailed == opName # NoOp.name /\ opResult.err # NilErr

\* C8: every non-nil error returned by a Client operation, on every failure
\* path (dispatch failure, unexpected status, decode failure), matches
\* ClientOutlineError and at least one specific sentinel under errors.Is.
C8_OperationErrorsInTaxonomy ==
    OperationFailed =>
        /\ errorsIs(opResult.err, ClientOutlineError)
        /\ \E K \in SpecificKinds : errorsIs(opResult.err, K)

\* The sentinel kind each constructor is bound to.
CtorKind(ctor) ==
    CASE ctor = "errInvalidHostname" -> InvalidHostnameError
      [] ctor = "errInternalHostname" -> InternalHostNameError
      [] ctor = "errInvalidPort" -> InvalidPortError
      [] ctor = "errPortAlreadyInUse" -> PortAlreadyInUseError
      [] ctor = "errInvalidServerName" -> InvalidServerNameError
      [] ctor = "errInvalidRequest" -> InvalidRequestError
      [] ctor = "errInvalidDataLimit" -> InvalidDataLimitError
      [] ctor = "errAccessKeyNotFound" -> AccessKeyNotFoundError
      [] ctor = "errUnexpectedStatusCode" -> UnexpectedStatusCodeError
      [] ctor = "errParseBaseURL" -> InvalidBaseURLError
      [] ctor = "errUnmarshal" -> UnmarshalFailedError
      [] ctor = "errUnmarshalEmptyBody" -> UnmarshalEmptyBodyError
      [] ctor \in DoErrorCtors -> DoOperationError

\* The wrapper type each constructor returns.
CtorWrapper(ctor) ==
    CASE ctor \in ClientErrorCtors -> "ClientError"
      [] ctor = "errParseBaseURL" -> "ParseURLError"
      [] ctor \in {"errUnmarshal", "errUnmarshalEmptyBody"} -> "UnmarshalError"
      [] ctor \in DoErrorCtors -> "DoError"

\* C9: an error e built by a constructor bound to kind K matches
\* ClientOutlineError and K under errors.Is, through the wrapper's Unwrap
\* link (e is neither sentinel itself), and errors.As into the constructor's
\* wrapper type yields e; for all arguments, a nil upstream error included.
C9_ConstructorsMatchTheirKind ==
    built.ctor # NoBuilt.ctor =>
        /\ built.e.t = CtorWrapper(built.ctor)
        /\ built.e \notin {ClientOutlineError, CtorKind(built.ctor)}
        /\ errorsIs(built.e, ClientOutlineError)
        /\ errorsIs(built.e, CtorKind(built.ctor))
        /\ errorsAs(built.e, CtorWrapper(built.ctor)) = built.e
        /\ built.up # NilErr => errorsIs(built.e, built.up)

\* A constructor that takes an upstream error was given nil.
C9_Witness ==
    /\ built.ctor \in DoErrorCtors \cup {"errParseBaseURL", "errUnmarshal"}
    /\ built.up = NilErr
    /\ built.e # NilErr

\* C28: the sentinel kinds are pairwise distinct (no one matches another),
\* and an error built by a ClientError constructor bound to kind K matches,
\* among the specific kinds, K and no other.
C28_KindsAreExclusive ==
    /\ \A K, L \in SpecificKinds \cup {ClientOutlineError} :
           errorsIs(K, L) <=> K.id = L.id
    /\ built.ctor \in ClientErrorCtors =>
           \A K \in SpecificKinds :
               errorsIs(built.e, K) <=> K = CtorKind(built.ctor)

\* C28 witness: an invalid-port error was built; it matches neither
\* PortAlreadyInUseError nor UnexpectedStatusCodeError.
C28_Witness ==
    /\ built.ctor = "errInvalidPort"
    /\ errorsIs(built.e, InvalidPortError)
    /\ ~errorsIs(built.e, PortAlreadyInUseError)
    /\ ~errorsIs(built.e, UnexpectedStatusCodeError)

\* C10: when the Doer returns an error e, the operation returns a nil result
\* and an error that errors.As extracts as *DoError and that matches
\* ClientOutlineError, DoOperationError and e itself under errors.Is.
C10_DoerErrorBecomesDoError ==
    (opName # NoOp.name /\ opDoerErr # NilErr) =>
        /\ opResult.val = NilVal
        /\ errorsAs(opResult.err, "DoError") # NilErr
        /\ errorsIs(opResult.err, ClientOutlineError)
        /\ errorsIs(opResult.err, DoOperationError)
        /\ errorsIs(opResult.err, opDoerErr)

\* The statuses each operation handles explicitly in its switch on
\* resp.StatusCode. GetExperimentalMetrics has no switch; 200 is its success.
HandledStatuses(op) ==
    CASE op \in {"GetServerInfo", "GetMetricsEnabled", "GetAccessKeys",
                 "GetMetricsTransfer", "GetExperimentalMetrics"} -> {StatusOK}
      [] op = "CreateAccessKey" -> {StatusCreated}
      [] op = "UpdateServerHostname" ->
            {StatusNoContent, StatusBadRequest, StatusInternalServerError}
      [] op = "UpdatePortNewAccessKeys" ->
            {StatusNoContent, StatusBadRequest, StatusConflict}
      [] op \in {"UpdateServerName", "UpdateMetricsEnabled",
                 "UpdateKeyLimitBytes"} -> {StatusNoContent, StatusBadRequest}
      [] op = "DeleteKeyLimitBytes" -> {StatusNoContent}
      [] op = "GetAccessKey" -> {StatusOK, StatusNotFound}
      [] op = "UpdateAccessKey" -> {StatusCreated, StatusNotFound}
      [] op \in {"DeleteAccessKey", "UpdateNameAccessKey",
                 "DeleteDataLimitAccessKey"} -> {StatusNoContent, StatusNotFound}
      [] op = "UpdateDataLimitAccessKey" ->
            {StatusNoContent, StatusBadRequest, StatusNotFound}

\* The last call was an operation whose Doer answered with a response.
Answered == opName # NoOp.name /\ opDoerErr = NilErr

\* C11: a response whose status the operation does not handle explicitly
\* yields a nil result (its body is not decoded) and an error that errors.As
\* extracts as *ClientError, carrying that status and matching
\* UnexpectedStatusCodeError.
C11_UnhandledStatusIsUnexpected ==
    (Answered /\ opResp.status \notin HandledStatuses(opName)) =>
        /\ opResult.val = NilVal
        /\ errorsAs(opResult.err, "ClientError") # NilErr
        /\ errorsAs(opResult.err, "ClientError").statusCode = opResp.status
        /\ errorsIs(opResult.err, UnexpectedStatusCodeError)

(***************************************************************************)
(* Claims about formatting, decoding, construction and paths (SpecFormat)  *)
(***************************************************************************)
\* String s has sub as a substring.
Contains(s, sub) ==
    \E i \in 1 .. (Len(s) - Len(sub) + 1) : SubSeq(s, i, i + Len(sub) - 1) = sub

\* String s ends with suf.
EndsWith(s, suf) ==
    Len(s) >= Len(suf) /\ SubSeq(s, Len(s) - Len(suf) + 1, Len(s)) = suf

\* The multi-cause view of err (Unwrap() []error); empty when it has none.
CausesOf(err) == IF err # NilErr /\ err.t = "joinError" THEN err.errs ELSE <<>>

\* C12: withLastError(msg, err) is msg, then "; reason: " and the message of
\* the last element of err's multi-cause view when err has one with at least
\* one element, then exactly one period; for a nil or a plain error it is msg
\* and the period.
C12_WithLastErrorFormat ==
    fnCall.fn = "withLastError" =>
        LET causes == CausesOf(fnCall.err)
            last == causes[Len(causes)]
        IN  /\ Len(causes) >= 1 =>
                  fnCall.out =
                      ((fnCall.message \o "; reason: ") \o Error(last)) \o "."
            /\ Len(causes) = 0 => fnCall.out = fnCall.message \o "."
            /\ (fnCall.message = "test message"
                  /\ causes = <<firstError, secondError, thirdError>>) =>
                  fnCall.out = "test message; reason: third error."
            /\ EndsWith(fnCall.out, ".")

\* C12 witness: a join of three errors was formatted, surfacing the third.
C12_Witness ==
    /\ fnCall.fn = "withLastError"
    /\ Len(CausesOf(fnCall.err)) = 3
    /\ fnCall.out = "test message; reason: third error."

\* C26: when the last element of the joined cause is itself a joined error,
\* the reason clause is that element's whole Error() text, the messages of
\* all its elements one per line, and not the message of the element's own
\* last cause alone.
C26_ReasonIsOneLevel ==
    (fnCall.fn = "withLastError" /\ Len(CausesOf(fnCall.err)) >= 1) =>
        LET last == fnCall.err.errs[Len(fnCall.err.errs)]
            inner == CausesOf(last)
        IN  Len(inner) >= 1 =>
                /\ fnCall.out =
                       ((fnCall.message \o "; reason: ") \o Error(last)) \o "."
                /\ \A i \in 1 .. Len(inner) :
                       Contains(fnCall.out, Error(inner[i]))
                /\ Len(inner) >= 2 =>
                       fnCall.out #
                           ((fnCall.message \o "; reason: ")
                               \o Error(inner[Len(inner)])) \o "."
                /\ (fnCall.message = "test message"
                      /\ inner = <<secondError, thirdError>>) =>
                       fnCall.out =
                           "test message; reason: second error\nthird error."

\* C26 witness: a join ending in a join of two errors was formatted, and
\* both of the inner messages are in the reason clause.
C26_Witness ==
    /\ fnCall.fn = "withLastError"
    /\ fnCall.err = errorsJoin(<<firstError, errorsJoin(<<secondError, thirdError>>)>>)
    /\ fnCall.out = "test message; reason: second error\nthird error."

\* Where sub first starts in s; 0 when s does not contain it.
IndexOf(s, sub) ==
    IF Contains(s, sub)
    THEN CHOOSE i \in 1 .. Len(s) :
            /\ SubSeq(s, i, i + Len(sub) - 1) = sub
            /\ \A j \in 1 .. (i - 1) : SubSeq(s, j, j + Len(sub) - 1) # sub
    ELSE 0

\* The clauses, each present in s, appear in the order given.
InOrder(s, clauses) ==
    /\ \A i \in 1 .. Len(clauses) : Contains(s, clauses[i])
    /\ \A i \in 1 .. (Len(clauses) - 1) :
          IndexOf(s, clauses[i]) < IndexOf(s, clauses[i + 1])

\* Error() was called on a ClientError or an UnmarshalError.
FormattedDataError ==
    fnCall.fn = "Error" /\ fnCall.e.t \in {"ClientError", "UnmarshalError"}

\* C13: Error() of a ClientError or UnmarshalError without data has no
\* "data:" clause, and of an UnmarshalError without a type name no "(type:"
\* clause; the clauses that are present come in the order prefix, type or
\* status code, data, reason.
C13_EmptyFieldsOmitClauses ==
    FormattedDataError =>
        LET e == fnCall.e
            out == fnCall.out
            head == IF e.t = "ClientError"
                    THEN <<e.message, "; status code: " \o ToString(e.statusCode)>>
                    ELSE IF e.typeStr = "" THEN <<e.message>>
                    ELSE <<e.message, ("; (type: " \o e.typeStr) \o ")">>
            data == IF e.data = "" THEN <<>> ELSE <<"; data: " \o e.data>>
        IN  /\ e.data = "" => ~Contains(out, "data:")
            /\ (e.t = "UnmarshalError" /\ e.typeStr = "") =>
                  ~Contains(out, "(type:")
            /\ IndexOf(out, e.message) = 1
            /\ InOrder(out, (head \o data) \o <<"; reason: ">>)
            /\ e = errUnexpectedStatusCode(404, "not found") =>
                  out = "outline client error: unexpected status code; status code: 404; data: not found; reason: unexpected status code."

\* C13 witness: an UnmarshalError with neither data nor type name and a
\* ClientError without data have been formatted.
C13_Witness ==
    /\ FormattedDataError
    /\ fnCall.e.data = ""
    /\ fnCall.e.t = "UnmarshalError" => fnCall.e.typeStr = ""
    /\ EndsWith(fnCall.out, ".")

\* The constructors that take an upstream error.
UpstreamCtors == DoErrorCtors \cup {"errParseBaseURL", "errUnmarshal"}

\* The message of an upstream error.
UpstreamMessage(up) ==
    IF up = joinedUpstream THEN "network error\ncontext canceled" ELSE up.msg

\* C14: for a constructor that takes an upstream error, the reason clause of
\* Error() is the upstream error's message when that error is not nil and
\* the message of the constructor's sentinel kind when it is nil; it is never
\* the umbrella kind's message.
C14_ReasonIsMostSpecificCause ==
    (fnCall.fn = "Error" /\ fnCall.ctor \in UpstreamCtors) =>
        /\ fnCall.up # NilErr =>
              EndsWith(fnCall.out,
                       ("; reason: " \o UpstreamMessage(fnCall.up)) \o ".")
        /\ fnCall.up = NilErr =>
              EndsWith(fnCall.out,
                       ("; reason: " \o CtorKind(fnCall.ctor).msg) \o ".")
        /\ ~EndsWith(fnCall.out, ("; reason: " \o ClientOutlineError.msg) \o ".")
        /\ IndexOf(fnCall.out, "; reason: ") > 0
        /\ \A i \in (IndexOf(fnCall.out, "; reason: ") + 1)
                        .. (Len(fnCall.out) - 9) :
              SubSeq(fnCall.out, i, i + 9) # "; reason: "

\* C14 witness: a DoError built with a nil upstream error names its own kind
\* as the reason.
C14_Witness ==
    /\ fnCall.fn = "Error"
    /\ fnCall.ctor \in DoErrorCtors
    /\ fnCall.up = NilErr
    /\ EndsWith(fnCall.out, "; reason: do operation error.")

\* err is an UnmarshalError of the empty-body kind.
IsEmptyBodyError(err) ==
    /\ errorsAs(err, "UnmarshalError") # NilErr
    /\ errorsIs(err, ClientOutlineError)
    /\ errorsIs(err, UnmarshalFailedError)
    /\ errorsIs(err, UnmarshalEmptyBodyError)

\* C15: the decoding helper given zero-length input does not decode and
\* returns an UnmarshalError matching ClientOutlineError, UnmarshalFailedError
\* and UnmarshalEmptyBodyError, whose message has "(type: <name>)", ends
\* with "reason: empty body." and has no "data:" clause; the typed wrappers
\* then return a nil result.
C15_EmptyInputIsEmptyBodyError ==
    /\ (fnCall.fn = "unmarshalWithErrorInternal" /\ fnCall.data = "") =>
          /\ ~fnCall.decoded
          /\ IsEmptyBodyError(fnCall.err)
          /\ Contains(fnCall.text, ("(type: " \o fnCall.typeStr) \o ")")
          /\ EndsWith(fnCall.text, "reason: empty body.")
          /\ ~Contains(fnCall.text, "data:")
    /\ (fnCall.fn \in {"unmarshalJSONWithError", "unmarshalAccessKeysResponse"}
          /\ fnCall.data = "") =>
          /\ fnCall.out.val = NilVal
          /\ IsEmptyBodyError(fnCall.out.err)

\* C15 witness: the helper was called with zero-length input.
C15_Witness ==
    /\ fnCall.fn = "unmarshalWithErrorInternal"
    /\ fnCall.data = ""
    /\ fnCall.err # NilErr

\* The specific sentinel kinds err matches.
KindsOf(err) == {K \in SpecificKinds : errorsIs(err, K)}

\* err is a *ClientError with this status code and of exactly this kind.
IsClientErrorOf(err, statusCode, K) ==
    /\ errorsAs(err, "ClientError") # NilErr
    /\ errorsAs(err, "ClientError").statusCode = statusCode
    /\ errorsIs(err, ClientOutlineError)
    /\ KindsOf(err) = {K}

\* C16: UpdateServerHostname returns nil for 204, a *ClientError with status
\* 400 matching InvalidHostnameError for 400, a *ClientError with status 500
\* matching InternalHostNameError for 500, and a *ClientError matching
\* UnexpectedStatusCodeError for every other status.
C16_UpdateServerHostnameStatusMap ==
    (opName = "UpdateServerHostname" /\ opDoerErr = NilErr) =>
        CASE opResp.status = 204 -> opResult.err = NilErr
          [] opResp.status = 400 ->
                IsClientErrorOf(opResult.err, 400, InvalidHostnameError)
          [] opResp.status = 500 ->
                IsClientErrorOf(opResult.err, 500, InternalHostNameError)
          [] OTHER ->
                IsClientErrorOf(opResult.err, opResp.status,
                                UnexpectedStatusCodeError)

\* C16 witness: UpdateServerHostname was answered 500.
C16_Witness ==
    /\ opName = "UpdateServerHostname"
    /\ opDoerErr = NilErr
    /\ opResp.status = 500
    /\ errorsIs(opResult.err, InternalHostNameError)

\* The operations that address an access key by its id.
ByIdOperations ==
    {"GetAccessKey", "UpdateAccessKey", "DeleteAccessKey", "UpdateNameAccessKey",
     "UpdateDataLimitAccessKey", "DeleteDataLimitAccessKey"}

\* An operation addressing a key by id was answered 404.
KeyNotFoundAnswered ==
    opName \in ByIdOperations /\ opDoerErr = NilErr /\ opResp.status = 404

\* C17: for a 404 response each operation addressing a key by id returns an
\* error that errors.As extracts as *ClientError, with status code 404,
\* matching ClientOutlineError and AccessKeyNotFoundError.
C17_NotFoundIsAccessKeyNotFound ==
    KeyNotFoundAnswered =>
        /\ opResult.val = NilVal
        /\ errorsAs(opResult.err, "ClientError") # NilErr
        /\ errorsAs(opResult.err, "ClientError").statusCode = 404
        /\ errorsIs(opResult.err, ClientOutlineError)
        /\ errorsIs(opResult.err, AccessKeyNotFoundError)

\* C17 witness: UpdateDataLimitAccessKey was answered 404 and failed.
C17_Witness ==
    /\ KeyNotFoundAnswered
    /\ opName = "UpdateDataLimitAccessKey"
    /\ opResult.err # NilErr

(***************************************************************************)
(* Claims about the Client's fields (SpecURLs)                             *)
(***************************************************************************)
\* C18: whatever calls are made and however they interleave, every URL
\* template stored in the Client is as construction left it: the templates
\* with an id still hold "{id}" and none has a query string.
C18_TemplatesNeverModified ==
    /\ \A f \in PathFields : urls[f] = resolve(EndpointPath(f))
    /\ \A f \in IdPathFields : Contains(urls[f].path, "{id}")
    /\ \A f \in PathFields : urls[f].rawQuery = ""

\* C18 witness: two callers are in the middle of an operation at once, one
\* with the id substituted in its copy, the other with the query set in its
\* copy.
C18_Witness ==
    \E k1, k2 \in Callers :
        /\ urlCalls[k1].pc = "replaced" /\ urlCalls[k1].field \in IdPathFields
        /\ ~Contains(urls[urlCalls[k1].loc].path, "{id}")
        /\ urlCalls[k2].pc = "replaced"
        /\ urlCalls[k2].field = "getExperimentalMetricsPath"
        /\ urls[urlCalls[k2].loc].rawQuery # ""


\* ---------------------------------------------------------------------
\* Claims about the constructors
\* ---------------------------------------------------------------------
\* The base URLs the claim calls malformed, empty, or not joinable with the
\* secret.
MalformedBaseURLs == {"://host:1/pre", "https://host:1/%zz"}
UnjoinableBaseURLs == {"https://host:1/a%25zz"}
RejectedBaseURLs == MalformedBaseURLs \cup UnjoinableBaseURLs \cup {""}

IsInvalidBaseURLResult(out) ==
    /\ out.client = NilVal
    /\ out.err # NilErr
    /\ out.err.t = "ParseURLError"
    /\ errorsIs(out.err, InvalidBaseURLError)

\* C19: NewClient returns a nil client and a *ParseURLError matching
\* InvalidBaseURLError whenever the base URL is malformed or empty or cannot
\* be joined with the secret, and MustNewClient panics in exactly the cases
\* where NewClient returns an error.
C19_BadBaseURLIsRejected ==
    /\ (fnCall.fn = "NewClient" /\ fnCall.baseURL \in RejectedBaseURLs)
          => IsInvalidBaseURLResult(fnCall.out)
    /\ fnCall.fn = "MustNewClient"
          => (fnCall.out.panicked
                 <=> NewClient(fnCall.baseURL, fnCall.secret).err # NilErr)


\* ---------------------------------------------------------------------
\* Claims about secret masking
\* ---------------------------------------------------------------------
\* Where s is cut: before its first character, at each slash, after its last.
Cuts(s) == {0, Len(s) + 1} \cup {i \in 1 .. Len(s) : SubSeq(s, i, i) = "/"}
NumSegments(s) == Cardinality(Cuts(s)) - 1
NthCut(s, k) ==
    CHOOSE c \in Cuts(s) : Cardinality({d \in Cuts(s) : d < c}) = k - 1
\* The k-th slash-delimited segment of s.
Segment(s, k) == SubSeq(s, NthCut(s, k) + 1, NthCut(s, k + 1) - 1)

Masked == fnCall.fn = "maskSecretPath"

Logged == fnCall.fn = "logRequest" /\ fnCall.secret # ""

\* The url= field of a log line.
LoggedURL(line) ==
    SubSeq(line, IndexOf(line, " url=") + 5, IndexOf(line, " headers=") - 1)

\* C21 as stated: for every Client operation the Info-level message written
\* by logRequest never contains the Client's secret, for every secret and
\* base URL the Client can be constructed with; only the Debug-level message
\* contains the full URL.
C21_InfoNeverContainsSecret ==
    Logged =>
        /\ ~Contains(fnCall.out.info, fnCall.secret)
        /\ LoggedURL(fnCall.out.debug) = fnCall.url

\* C21 as amended: the URL of the Info-level message is the request URL
\* with every slash-delimited segment that equals the Client's secret
\* replaced by "*****" and every other segment as it is, so the secret is
\* never a whole segment of it; the Debug-level message has the request URL
\* unchanged, and the two messages differ in nothing else.
C21_InfoMasksSecretSegments ==
    Logged =>
        /\ NumSegments(LoggedURL(fnCall.out.info)) = NumSegments(fnCall.url)
        /\ \A k \in 1 .. NumSegments(fnCall.url) :
               /\ Segment(LoggedURL(fnCall.out.info), k) # fnCall.secret
               /\ Segment(LoggedURL(fnCall.out.info), k) =
                      IF Segment(fnCall.url, k) = fnCall.secret
                          THEN "*****" ELSE Segment(fnCall.url, k)
        /\ LoggedURL(fnCall.out.debug) = fnCall.url
        /\ SubSeq(fnCall.out.info, 1, IndexOf(fnCall.out.info, " url=")) =
               SubSeq(fnCall.out.debug, 1, IndexOf(fnCall.out.debug, " url="))
        /\ EndsWith(fnCall.out.info, " headers=" \o DefaultHeadersText)
        /\ EndsWith(fnCall.out.debug, " headers=" \o DefaultHeadersText)

\* A request whose URL has the secret as a whole segment has been logged:
\* masked in the Info message, in full in the Debug message.
C21_Witness ==
    /\ Logged
    /\ \E k \in 1 .. NumSegments(fnCall.url) : Segment(fnCall.url, k) = fnCall.secret
    /\ Contains(fnCall.out.info, "*****")
    /\ ~Contains(fnCall.out.info, fnCall.secret)
    /\ Contains(fnCall.out.debug, fnCall.secret)


\* ---------------------------------------------------------------------
\* Claims about formatDuration
\* ---------------------------------------------------------------------
\* The absolute value of d, truncated to its largest non-zero whole unit.
LargestUnit(d) ==
    IF d.h # 0 THEN ToString(d.h) \o "h"
    ELSE IF d.m # 0 THEN ToString(d.m) \o "m"
    ELSE IF d.s # 0 THEN ToString(d.s) \o "s"
    ELSE "0s"

\* C22: formatDuration(d) renders the absolute value of d truncated to the
\* largest non-zero whole unit among hours, minutes and seconds as "<n>h",
\* "<n>m" or "<n>s", prefixed with "-" when d is negative, and returns "0s"
\* without a sign whenever the absolute value of d is less than one second.
C22_FormatDurationLargestUnit ==
    fnCall.fn = "formatDuration" =>
        fnCall.out =
            IF fnCall.d.h = 0 /\ fnCall.d.m = 0 /\ fnCall.d.s = 0 THEN "0s"
            ELSE (IF fnCall.d.neg THEN "-" ELSE "") \o LargestUnit(fnCall.d)


(***************************************************************************)
(* Claims about the Doer invocations of an operation call                  *)
(***************************************************************************)
OperationReturned == opPc = "idle" /\ opName # NoOp.name

\* C29: every Client operation invokes the Doer exactly once per call: no
\* second invocation follows a dispatch error, an unexpected status code or
\* a decode failure, and what the operation returns is its function of what
\* that one invocation returned.
C29_DoerInvokedOncePerCall ==
    /\ Len(doerLog) <= 1
    /\ opPc = "dispatch" => doerLog = <<>>
    /\ opPc = "answered" => Len(doerLog) = 1
    /\ OperationReturned =>
        /\ Len(doerLog) = 1
        /\ opResult = Operate(opName, opArg, doerLog[1].err, doerLog[1].resp)

\* An operation returned an error after its one Doer invocation answered
\* with the expected status and a body that does not decode.
C29_Witness ==
    /\ OperationReturned
    /\ opName = "GetServerInfo"
    /\ Len(doerLog) = 1
    /\ doerLog[1].err = NilErr
    /\ doerLog[1].resp.status = StatusOK
    /\ opResult.err # NilErr


(***************************************************************************)
(* Claims about the options                                                *)
(***************************************************************************)
Constructing == fnCall # NoFn /\ fnCall.fn = "initClient"
Constructed == Constructing /\ fnCall.pc = "returned"

\* A nil interface or a nil pointer.
IsNilValue(v) == v = NilInterface \/ v = NilPointer

\* The argument of the last of the first n options that is the option name
\* with a value that is not nil; the default when there is none.
LastNonNil(name, options, n, default) ==
    LET set == {i \in 1 .. n : /\ options[i].name = name
                               /\ ~IsNilValue(options[i].arg)}
    IN IF set = {} THEN default
       ELSE options[CHOOSE i \in set : \A j \in set : j <= i].arg

\* C30: after construction with any sequence of options the doer and the
\* logger are not nil; WithClient and WithLogger given a nil interface or a
\* nil pointer leave the field as it is, given another value they replace
\* it, and of several options for one field the last non-nil one wins: after
\* each option applied, each field is the last non-nil value given for it so
\* far, or its default.
C30_OptionsNeverLeaveNil ==
    Constructing =>
        /\ fnCall.c.doer =
              LastNonNil("WithClient", fnCall.options, fnCall.pos - 1,
                         DefaultDoer)
        /\ fnCall.c.logger =
              LastNonNil("WithLogger", fnCall.options, fnCall.pos - 1,
                         DefaultLogger)
        /\ ~IsNilValue(fnCall.c.doer)
        /\ ~IsNilValue(fnCall.c.logger)

\* A Client constructed with two doers and then a nil pointer has the
\* second doer, and the default logger after a nil logger.
C30_Witness ==
    /\ Constructed
    /\ \E i, j, k \in 1 .. Len(fnCall.options) :
        /\ i < j
        /\ j < k
        /\ fnCall.options[i] = OptionOf("WithClient", Pointer("doerA"))
        /\ fnCall.options[j] = OptionOf("WithClient", Pointer("doerB"))
        /\ fnCall.options[k] = OptionOf("WithClient", NilPointer)
    /\ fnCall.c.doer = Pointer("doerB")
    /\ fnCall.c.logger = DefaultLogger

====
